---- MODULE Spec2Model ----
(***************************************************************************)
(* A model of alpha_core (AlphaImaging): the pairing resolver              *)
(* (naming.py), the path helpers and overwrite gate (io.py), the validate  *)
(* engine (ops_validate.py) and the four batch drivers (ops_split.py,      *)
(* ops_combine.py, ops_generate.py, ops_validate.py).                      *)
(*                                                                         *)
(* Strings are sequences of ASCII code points, so that case folding,       *)
(* suffix stripping and lexicographic order are computed, not assumed.     *)
(* A path is a record [dirs, name]: the directory segments and the final   *)
(* segment, each a string.                                                 *)
(***************************************************************************)
EXTENDS Integers, Sequences, FiniteSets, TLC

VARIABLES
    \* ---- build_pairs (naming.py) ----
    bp_pc,            \* "input" | "done"
    rgb_paths,        \* argument rgb_paths
    alpha_paths,      \* argument alpha_paths
    rule,             \* argument rule (a PairingRule)
    pairs,            \* result: list of <<rgb_path, alpha_path>>
    unpaired_rgb,     \* result
    unpaired_alpha,   \* result
    \* ---- validate_alpha_file (ops_validate.py) ----
    v_pc,             \* "input" | "done"
    v_img,            \* the image stored in the file being validated
    v_rules,          \* argument rules (a ValidationRules)
    v_res,            \* the AlphaValidationResult returned
    \* ---- the image functions (split_alpha, combine_alpha, generate_*, stats) ----
    im_pc,            \* "input" | "done"
    im_img,           \* the image passed to the function
    im_call,          \* the function called and its other arguments
    im_res,           \* what the call returned or raised
    \* ---- the batch drivers (*_files) ----
    op,               \* "none" | "split" | "combine" | "generate" | "validate"
    opts,             \* the arguments of the call
    files,            \* the work list: files (split, generate, validate) or pairs (combine)
    fs,               \* the disk: canonical path of each regular file -> its content
    fs0,              \* the disk as it was when the batch started
    pc,               \* "idle" | "top" | "item" | "returned" | "raised"
    i,                \* the loop counter (1-based, as enumerate(..., start=1))
    cancel_flag,      \* cancel_flag.is_set(); set by another thread
    outputs,          \* outputs (split, combine, generate) or results (validate)
    progress,         \* the calls made to progress_cb: <<done, total>>
    visited,          \* history: for each item whose body ran, [item, cancelled, ok]
    error             \* the exception that left the call, or "none"

pairVars == <<bp_pc, rgb_paths, alpha_paths, rule, pairs, unpaired_rgb, unpaired_alpha>>

valVars == <<v_pc, v_img, v_rules, v_res>>

imgVars == <<im_pc, im_img, im_call, im_res>>

batchVars == <<op, opts, files, fs, fs0, pc, i, cancel_flag, outputs, progress, visited, error>>

vars == <<pairVars, valVars, imgVars, batchVars>>

\* Each of the four parts of the model runs alone; the other three stay idle.
NoFile == [kind |-> "none"]

PairIdle ==
    /\ bp_pc = "idle"
    /\ rgb_paths = <<>>
    /\ alpha_paths = <<>>
    /\ rule = NoFile
    /\ pairs = <<>>
    /\ unpaired_rgb = <<>>
    /\ unpaired_alpha = <<>>

ValIdle ==
    /\ v_pc = "idle"
    /\ v_img = NoFile
    /\ v_rules = NoFile
    /\ v_res = NoFile

ImgIdle ==
    /\ im_pc = "idle"
    /\ im_img = NoFile
    /\ im_call = NoFile
    /\ im_res = NoFile

BatchIdle ==
    /\ op = "none"
    /\ opts = NoFile
    /\ files = <<>>
    /\ fs = <<>>
    /\ fs0 = <<>>
    /\ pc = "idle"
    /\ i = 0
    /\ cancel_flag = FALSE
    /\ outputs = <<>>
    /\ progress = <<>>
    /\ visited = <<>>
    /\ error = "none"

(***************************************************************************)
(* Bounds of the model.                                                    *)
(***************************************************************************)
MaxPaths == 2      \* longest rgb_paths / alpha_paths list given to build_pairs

(***************************************************************************)
(* Strings.                                                                *)
(***************************************************************************)
\* str.lower() on one ASCII character: 'A'..'Z' -> 'a'..'z'.
LowerChar(c) == IF c >= 65 /\ c <= 90 THEN c + 32 ELSE c

LowerStr(s) == [k \in 1..Len(s) |-> LowerChar(s[k])]

\* str.endswith
EndsWith(s, suf) ==
    /\ Len(suf) <= Len(s)
    /\ SubSeq(s, Len(s) - Len(suf) + 1, Len(s)) = suf

\* str.rfind('.') as a 1-based index, 0 when there is no dot.
RFindDot(s) ==
    LET hits == {k \in 1..Len(s) : s[k] = 46}
    IN  IF hits = {} THEN 0 ELSE CHOOSE k \in hits : \A j \in hits : j <= k

\* Lexicographic order of two strings (or of two lists of integers).
RECURSIVE StrLess(_, _)
StrLess(a, b) ==
    IF b = <<>> THEN FALSE
    ELSE IF a = <<>> THEN TRUE
    ELSE IF a[1] # b[1] THEN a[1] < b[1]
    ELSE StrLess(Tail(a), Tail(b))

\* "/".join(parts)
RECURSIVE JoinSlash(_)
JoinSlash(parts) ==
    IF parts = <<>> THEN <<>>
    ELSE IF Len(parts) = 1 THEN parts[1]
    ELSE parts[1] \o <<47>> \o JoinSlash(Tail(parts))

\* Index of the first element of seq equal to x, 0 when absent (list.index).
IndexOf(seq, x) ==
    LET hits == {k \in 1..Len(seq) : seq[k] = x}
    IN  IF hits = {} THEN 0 ELSE CHOOSE k \in hits : \A j \in hits : k <= j

(***************************************************************************)
(* pathlib.PurePath: parts, suffix, stem, str.                             *)
(***************************************************************************)
Parts(p) == p.dirs \o <<p.name>>

\* PurePath.suffix: the last dot of the name counts unless it is the first
\* or the last character.
PathSuffix(p) ==
    LET k == RFindDot(p.name)
    IN  IF k > 1 /\ k < Len(p.name) THEN SubSeq(p.name, k, Len(p.name)) ELSE <<>>

\* PurePath.stem
PathStem(p) ==
    LET k == RFindDot(p.name)
    IN  IF k > 1 /\ k < Len(p.name) THEN SubSeq(p.name, 1, k - 1) ELSE p.name

\* str(path)
PathStr(p) == JoinSlash(Parts(p))

(***************************************************************************)
(* The files on disk that build_pairs sees (is_file), and is_image_file.   *)
(***************************************************************************)
SUPPORTED_IMAGE_EXTS ==
    { <<46, 112, 110, 103>>,        \* .png
      <<46, 116, 103, 97>>,         \* .tga
      <<46, 116, 105, 102>>,        \* .tif
      <<46, 116, 105, 102, 102>>,   \* .tiff
      <<46, 98, 109, 112>>,         \* .bmp
      <<46, 119, 101, 98, 112>>,    \* .webp
      <<46, 106, 112, 103>>,        \* .jpg
      <<46, 106, 112, 101, 103>> }  \* .jpeg

\* path.suffix.lower() in SUPPORTED_IMAGE_EXTS
HasImageExt(p) == LowerStr(PathSuffix(p)) \in SUPPORTED_IMAGE_EXTS

\* Path.resolve(): the canonical path.  The model's paths are relative to one
\* working directory and hold no symlinks, so resolving removes each
\* "<dir>/.." step.
RECURSIVE ResolveParts(_, _)
ResolveParts(todo, done) ==
    IF todo = <<>> THEN done
    ELSE IF todo[1] = <<46, 46>> /\ done # <<>>
         THEN ResolveParts(Tail(todo), SubSeq(done, 1, Len(done) - 1))
         ELSE ResolveParts(Tail(todo), Append(done, todo[1]))

\* The path made of the given parts.
PathOf(parts) == [dirs |-> SubSeq(parts, 1, Len(parts) - 1), name |-> parts[Len(parts)]]

Resolve(p) == PathOf(ResolveParts(Parts(p), <<>>))

\* is_image_file(path), where disk is the set of (canonical paths of the)
\* regular files that exist: path.is_file() and the extension test.
is_image_file(disk, p) == Resolve(p) \in disk /\ HasImageExt(p)

P_cat       == [dirs |-> <<>>, name |-> <<99, 97, 116, 46, 112, 110, 103>>]              \* cat.png
P_CAT       == [dirs |-> <<>>, name |-> <<67, 65, 84, 46, 80, 78, 71>>]                  \* CAT.PNG
P_rgb_cat   == [dirs |-> << <<114, 103, 98>> >>, name |-> <<99, 97, 116, 46, 112, 110, 103>>]   \* rgb/cat.png
P_dog       == [dirs |-> <<>>, name |-> <<100, 111, 103, 46, 112, 110, 103>>]            \* dog.png
P_notes     == [dirs |-> <<>>, name |-> <<110, 111, 116, 101, 115, 46, 116, 120, 116>>]  \* notes.txt
P_ghost     == [dirs |-> <<>>, name |-> <<103, 104, 111, 115, 116, 46, 112, 110, 103>>]  \* ghost.png (not on disk)
P_cat_alpha == [dirs |-> <<>>, name |-> <<99, 97, 116, 95, 97, 108, 112, 104, 97, 46, 112, 110, 103>>]  \* cat_alpha.png
P_CAT_ALPHA == [dirs |-> <<>>, name |-> <<67, 65, 84, 95, 65, 76, 80, 72, 65, 46, 112, 110, 103>>]     \* CAT_ALPHA.png
P_alpha_cat == [dirs |-> << <<97, 108, 112, 104, 97>> >>, name |-> <<99, 97, 116, 46, 112, 110, 103>>] \* alpha/cat.png
P_dog_alpha == [dirs |-> <<>>, name |-> <<100, 111, 103, 95, 97, 108, 112, 104, 97, 46, 112, 110, 103>>] \* dog_alpha.png

\* The regular files that exist while build_pairs runs.
PairDisk == {P_cat, P_CAT, P_rgb_cat, P_dog, P_notes, P_cat_alpha, P_CAT_ALPHA, P_alpha_cat,
             P_dog_alpha}

\* The paths a caller may put in rgb_paths and in alpha_paths.
RgbUniverse   == {P_cat, P_CAT, P_rgb_cat, P_dog, P_notes, P_ghost}
AlphaUniverse == {P_cat_alpha, P_CAT_ALPHA, P_alpha_cat, P_cat, P_notes, P_dog_alpha}

(***************************************************************************)
(* naming.py                                                               *)
(***************************************************************************)
S_alpha_suffix == <<95, 97, 108, 112, 104, 97>>   \* "_alpha"
S_rgb_suffix   == <<95, 114, 103, 98>>            \* "_rgb"
S_rgb_dir      == <<114, 103, 98>>                \* "rgb"
S_alpha_dir    == <<97, 108, 112, 104, 97>>       \* "alpha"

\* PairingRule() with its defaults.
default_rule ==
    [mode |-> "suffix", alpha_suffix |-> S_alpha_suffix, rgb_suffix |-> <<>>,
     rgb_dir_name |-> S_rgb_dir, alpha_dir_name |-> S_alpha_dir,
     case_sensitive |-> FALSE]

\* The rules the model passes to build_pairs.
Rules ==
    { [default_rule EXCEPT !.mode = m, !.case_sensitive = cs, !.rgb_suffix = rs] :
        m \in {"suffix", "folder", "exact"}, cs \in BOOLEAN, rs \in {<<>>} }
    \cup
    { [default_rule EXCEPT !.case_sensitive = cs, !.rgb_suffix = S_rgb_suffix] :
        cs \in BOOLEAN }

_norm(s, case_sensitive) == IF case_sensitive THEN s ELSE LowerStr(s)

\* rel = Path(*parts[idx + 1:]).with_suffix(""), then str(rel).  with_suffix
\* raises ValueError on the empty path, which the caller's except catches.
FolderRel(p, idx) ==
    LET rest == SubSeq(Parts(p), idx + 1, Len(Parts(p)))
        last == [dirs |-> <<>>, name |-> rest[Len(rest)]]
    IN  JoinSlash(SubSeq(rest, 1, Len(rest) - 1) \o <<PathStem(last)>>)

_key_for_path(p, r, is_alpha) ==
    IF r.mode = "suffix" THEN
        LET s0 == PathStem(p)
            s1 == IF is_alpha /\ r.alpha_suffix # <<>> /\ EndsWith(s0, r.alpha_suffix)
                  THEN SubSeq(s0, 1, Len(s0) - Len(r.alpha_suffix)) ELSE s0
            s2 == IF (~is_alpha) /\ r.rgb_suffix # <<>> /\ EndsWith(s1, r.rgb_suffix)
                  THEN SubSeq(s1, 1, Len(s1) - Len(r.rgb_suffix)) ELSE s1
        IN  _norm(s2, r.case_sensitive)
    ELSE IF r.mode = "folder" THEN
        LET dir_name == IF is_alpha THEN r.alpha_dir_name ELSE r.rgb_dir_name
            idx      == IndexOf(Parts(p), dir_name)
            rel      == IF idx = 0 \/ idx = Len(Parts(p))
                        THEN PathStem(p)          \* except ValueError: just the name
                        ELSE FolderRel(p, idx)
        IN  _norm(rel, r.case_sensitive)
    ELSE _norm(PathStem(p), r.case_sensitive)     \* exact

\* dict.setdefault on an insertion-ordered dict, kept as a list of [k, p].
MapKeys(m) == {m[j].k : j \in 1..Len(m)}

MapGet(m, key) == (CHOOSE j \in 1..Len(m) : m[j].k = key)

\* Mutants of SetDefault: one that appends even when the key is present, one
\* where the last path of a key replaces the first.
SetDefault_append(m, key, p) == Append(m, [k |-> key, p |-> p])

SetDefault_lastwins(m, key, p) ==
    IF key \in MapKeys(m)
    THEN [j \in 1..Len(m) |-> IF m[j].k = key THEN [k |-> key, p |-> p] ELSE m[j]]
    ELSE Append(m, [k |-> key, p |-> p])

SetDefault(m, key, p) == IF key \in MapKeys(m) THEN m ELSE Append(m, [k |-> key, p |-> p])

\* The two loops of build_pairs that fill rgb_map and alpha_map.
RECURSIVE KeyMap(_, _, _, _, _)
KeyMap(paths, r, is_alpha, disk, m) ==
    IF paths = <<>> THEN m
    ELSE LET p == paths[1]
         IN  KeyMap(Tail(paths), r, is_alpha, disk,
                    IF is_image_file(disk, p)
                    THEN SetDefault(m, _key_for_path(p, r, is_alpha), p)
                    ELSE m)

\* list.sort(key=...): a stable sort of entries [key, val] by key.
RECURSIVE InsertByKey(_, _)
InsertByKey(sorted, e) ==
    IF sorted = <<>> THEN <<e>>
    ELSE IF StrLess(e.key, sorted[1].key) THEN <<e>> \o sorted
    ELSE <<sorted[1]>> \o InsertByKey(Tail(sorted), e)

\* A mutant of SortByKey: the list is left in the order it has.
SortByKey_unsorted(todo, sorted) == sorted \o todo

RECURSIVE SortByKey(_, _)
SortByKey(todo, sorted) ==
    IF todo = <<>> THEN sorted
    ELSE SortByKey(Tail(todo), InsertByKey(sorted, todo[1]))

\* pairs.sort(key=lambda t: str(t[0]))
SortPairs(ps) ==
    LET es == SortByKey([j \in 1..Len(ps) |-> [key |-> PathStr(ps[j][1]), val |-> ps[j]]], <<>>)
    IN  [j \in 1..Len(es) |-> es[j].val]

\* unpaired.sort(key=lambda p: str(p))
SortPaths(ps) ==
    LET es == SortByKey([j \in 1..Len(ps) |-> [key |-> PathStr(ps[j]), val |-> ps[j]]], <<>>)
    IN  [j \in 1..Len(es) |-> es[j].val]

\* pairs.append((rgb_p, a)) for every rgb_map entry whose key alpha_map holds.
RECURSIVE EmitPairs(_, _)
EmitPairs(rgb_map, alpha_map) ==
    IF rgb_map = <<>> THEN <<>>
    ELSE LET e == rgb_map[1]
         IN  (IF e.k \in MapKeys(alpha_map)
              THEN << <<e.p, alpha_map[MapGet(alpha_map, e.k)].p>> >>
              ELSE <<>>) \o EmitPairs(Tail(rgb_map), alpha_map)

\* used_alpha: the keys added while pairs were emitted.
UsedAlpha(rgb_map, alpha_map) == MapKeys(rgb_map) \cap MapKeys(alpha_map)

MapPaths(m) == [j \in 1..Len(m) |-> m[j].p]

\* build_pairs(rgb_paths, alpha_paths, rule), with disk the files that exist.
build_pairs(rgbs, alphas, r, disk) ==
    LET rgb_map    == KeyMap(rgbs, r, FALSE, disk, <<>>)
        alpha_map  == KeyMap(alphas, r, TRUE, disk, <<>>)
        used_alpha == UsedAlpha(rgb_map, alpha_map)
        RgbLeft(e)   == e.k \notin used_alpha /\ e.k \notin MapKeys(alpha_map)
        AlphaLeft(e) == e.k \notin used_alpha
    IN  [pairs          |-> SortPairs(EmitPairs(rgb_map, alpha_map)),
         unpaired_rgb   |-> SortPaths(MapPaths(SelectSeq(rgb_map, RgbLeft))),
         unpaired_alpha |-> SortPaths(MapPaths(SelectSeq(alpha_map, AlphaLeft)))]

(***************************************************************************)
(* The caller of build_pairs: it fills the two lists and the rule, then    *)
(* calls build_pairs once.                                                 *)
(***************************************************************************)
PairInit ==
    /\ bp_pc = "input"
    /\ rgb_paths = <<>>
    /\ alpha_paths = <<>>
    /\ rule \in Rules
    /\ pairs = <<>>
    /\ unpaired_rgb = <<>>
    /\ unpaired_alpha = <<>>
    /\ ValIdle
    /\ ImgIdle
    /\ BatchIdle

AddRgbPath ==
    /\ bp_pc = "input"
    /\ Len(rgb_paths) < MaxPaths
    /\ \E p \in RgbUniverse : rgb_paths' = Append(rgb_paths, p)
    /\ UNCHANGED <<bp_pc, alpha_paths, rule, pairs, unpaired_rgb, unpaired_alpha>>
    /\ UNCHANGED <<valVars, imgVars, batchVars>>

AddAlphaPath ==
    /\ bp_pc = "input"
    /\ Len(alpha_paths) < MaxPaths
    /\ \E p \in AlphaUniverse : alpha_paths' = Append(alpha_paths, p)
    /\ UNCHANGED <<bp_pc, rgb_paths, rule, pairs, unpaired_rgb, unpaired_alpha>>
    /\ UNCHANGED <<valVars, imgVars, batchVars>>

CallBuildPairs ==
    /\ bp_pc = "input"
    /\ LET res == build_pairs(rgb_paths, alpha_paths, rule, PairDisk)
       IN  /\ pairs' = res.pairs
           /\ unpaired_rgb' = res.unpaired_rgb
           /\ unpaired_alpha' = res.unpaired_alpha
    /\ bp_pc' = "done"
    /\ UNCHANGED <<rgb_paths, alpha_paths, rule>>
    /\ UNCHANGED <<valVars, imgVars, batchVars>>

PairNext == AddRgbPath \/ AddAlphaPath \/ CallBuildPairs

SpecPairs == PairInit /\ [][PairNext]_vars

(***************************************************************************)
(* Properties of build_pairs.                                              *)
(***************************************************************************)
\* The image files of a list, and the keys they derive, computed from the
\* arguments alone.
ImageIdx(paths) == {j \in 1..Len(paths) : is_image_file(PairDisk, paths[j])}

RgbKeys   == {_key_for_path(rgb_paths[j], rule, FALSE) : j \in ImageIdx(rgb_paths)}
AlphaKeys == {_key_for_path(alpha_paths[j], rule, TRUE) : j \in ImageIdx(alpha_paths)}

PairRgbs   == {pairs[j][1] : j \in 1..Len(pairs)}
PairAlphas == {pairs[j][2] : j \in 1..Len(pairs)}
SeqSet(s)  == {s[j] : j \in 1..Len(s)}

\* The first image file of paths, in input order, that derives key.
FirstWithKey(paths, is_alpha, key) ==
    LET hits == {j \in ImageIdx(paths) : _key_for_path(paths[j], rule, is_alpha) = key}
    IN  paths[CHOOSE j \in hits : \A h \in hits : j <= h]

\* C9: build_pairs never puts an RGB path in both pairs and unpaired_rgb, nor
\* an alpha path in both pairs and unpaired_alpha; len(pairs) +
\* len(unpaired_rgb) is the number of distinct keys of the image files of
\* rgb_paths, and len(pairs) + len(unpaired_alpha) that of alpha_paths.
C9_PairCounts ==
    bp_pc = "done" =>
        /\ PairRgbs \cap SeqSet(unpaired_rgb) = {}
        /\ PairAlphas \cap SeqSet(unpaired_alpha) = {}
        /\ Len(pairs) + Len(unpaired_rgb) = Cardinality(RgbKeys)
        /\ Len(pairs) + Len(unpaired_alpha) = Cardinality(AlphaKeys)

\* A run where a key is paired, one is left over on each side, and two
\* image files of rgb_paths derive the same key.
C9_Witness ==
    /\ bp_pc = "done"
    /\ Len(pairs) >= 1
    /\ Len(unpaired_rgb) >= 1
    /\ Cardinality(ImageIdx(alpha_paths)) > Cardinality(AlphaKeys)
    /\ Cardinality(ImageIdx(rgb_paths)) >= 2

\* C10: build_pairs emits one pair for exactly the keys present on both
\* sides, made of the first path of each side (in input order) that derives
\* the key; both members derive the same key; no two pairs share an RGB or
\* an alpha path; rgb [cat.png], alpha [cat_alpha.png] under the default rule
\* gives the single pair (cat.png, cat_alpha.png) and nothing unpaired.
C10_PairsAreCommonKeys ==
    bp_pc = "done" =>
        /\ {_key_for_path(pairs[j][1], rule, FALSE) : j \in 1..Len(pairs)}
              = RgbKeys \cap AlphaKeys
        /\ Len(pairs) = Cardinality(RgbKeys \cap AlphaKeys)
        /\ \A j \in 1..Len(pairs) :
              LET key == _key_for_path(pairs[j][1], rule, FALSE)
              IN  /\ _key_for_path(pairs[j][2], rule, TRUE) = key
                  /\ pairs[j][1] = FirstWithKey(rgb_paths, FALSE, key)
                  /\ pairs[j][2] = FirstWithKey(alpha_paths, TRUE, key)
        /\ \A j, k \in 1..Len(pairs) :
              j # k => pairs[j][1] # pairs[k][1] /\ pairs[j][2] # pairs[k][2]
        /\ (rgb_paths = <<P_cat>> /\ alpha_paths = <<P_cat_alpha>> /\ rule = default_rule)
              => /\ pairs = << <<P_cat, P_cat_alpha>> >>
                 /\ unpaired_rgb = <<>>
                 /\ unpaired_alpha = <<>>

\* The scenario of the claim, and a run where a later path of a side derives
\* a key that an earlier one already holds.
C10_Witness ==
    /\ bp_pc = "done"
    /\ rule = default_rule
    /\ alpha_paths = <<P_cat_alpha, P_CAT_ALPHA>>
    /\ rgb_paths = <<P_CAT, P_cat>>
    /\ pairs = << <<P_CAT, P_cat_alpha>> >>

(***************************************************************************)
(* Images (PIL.Image as the code uses it).  An image is [mode, w, h, px]:  *)
(* px lists the pixels row by row, each a tuple of 8-bit samples, one per  *)
(* band of the mode.  A file on disk is [kind |-> "png", img |-> image]    *)
(* when it decodes, [kind |-> "corrupt"] when Image.open fails on it, and  *)
(* [kind |-> "other"] when it is not an image at all.                      *)
(***************************************************************************)
\* Image.getbands()
getbands(img) ==
    IF img.mode = "RGBA" THEN {"R", "G", "B", "A"}
    ELSE IF img.mode = "RGB" THEN {"R", "G", "B"}
    ELSE {"L"}

\* ImagingConvert's rgb2l: the ITU-R 601-2 luma transform in 16.16 fixed point.
Luma(r, g, b) == (r * 19595 + g * 38470 + b * 7471 + 32768) \div 65536

\* Image.convert(mode) for the modes the model holds (RGBA, RGB, L).
ConvertPixel(px, from, to) ==
    IF from = to THEN px
    ELSE IF from = "RGB" /\ to = "RGBA" THEN <<px[1], px[2], px[3], 255>>
    ELSE IF from = "L" /\ to = "RGBA" THEN <<px[1], px[1], px[1], 255>>
    ELSE IF from = "RGBA" /\ to = "RGB" THEN <<px[1], px[2], px[3]>>
    ELSE IF from = "L" /\ to = "RGB" THEN <<px[1], px[1], px[1]>>
    ELSE <<Luma(px[1], px[2], px[3])>>        \* RGB or RGBA to L

Convert(img, to) ==
    [mode |-> to, w |-> img.w, h |-> img.h,
     px |-> [k \in 1..Len(img.px) |-> ConvertPixel(img.px[k], img.mode, to)]]

\* ensure_rgba: every branch returns an RGBA image.
ensure_rgba(img) ==
    IF img.mode = "RGBA" THEN img
    ELSE IF img.mode = "P" THEN Convert(img, "RGBA")
    ELSE Convert(img, "RGBA")

ensure_rgb(img) ==
    IF img.mode = "RGB" THEN img
    ELSE IF img.mode = "RGBA" THEN Convert(img, "RGB")
    ELSE IF img.mode = "P" THEN Convert(img, "RGB")
    ELSE Convert(img, "RGB")

ensure_l(img) ==
    IF img.mode = "L" THEN img
    ELSE IF img.mode = "RGBA" THEN Convert(Convert(img, "RGB"), "L")
    ELSE IF img.mode = "RGB" THEN Convert(img, "L")
    ELSE Convert(img, "L")

\* Image.split()[n]: band n as a list of samples.
Band(img, n) == [k \in 1..Len(img.px) |-> img.px[k][n]]

\* A call that returns val, and a call that raises err.
Ok(val) == [ok |-> TRUE, val |-> val]

Raise(err) == [ok |-> FALSE, err |-> err]

\* The file stored under canonical path q, NoFile when there is none.
FileAtKey(disk, q) == IF q \in DOMAIN disk THEN disk[q] ELSE NoFile

FileAt(disk, p) == FileAtKey(disk, Resolve(p))

\* Image.open(path); img.load(): any failure becomes AlphaIOError.
Decode(f) ==
    IF f.kind = "png" THEN Ok(f.img) ELSE Raise("AlphaIOError: Failed to load image")

load_image(disk, p) == Decode(FileAt(disk, p))

(***************************************************************************)
(* ops_validate.py.  The floats of AlphaStats are kept as exact fractions  *)
(* [num, den]; std is kept as its square, std2.                            *)
(***************************************************************************)
Frac(n, d) == [num |-> n, den |-> d]

FracGE(a, b) == a.num * b.den >= b.num * a.den

FracLT(a, b) == a.num * b.den < b.num * a.den

RECURSIVE SumSeq(_)
SumSeq(s) == IF s = <<>> THEN 0 ELSE s[1] + SumSeq(Tail(s))

MinSeq(s) == CHOOSE x \in {s[k] : k \in 1..Len(s)} : \A k \in 1..Len(s) : x <= s[k]

MaxSeq(s) == CHOOSE x \in {s[k] : k \in 1..Len(s)} : \A k \in 1..Len(s) : x >= s[k]

CountIf(s, T(_)) == Cardinality({k \in 1..Len(s) : T(s[k])})

\* ValidationRules() with its defaults.
default_rules ==
    [warn_pct_255 |-> Frac(999, 10), warn_pct_zero |-> Frac(999, 10),
     warn_std_lt |-> Frac(1, 1), warn_range_le |-> 2, fail_no_alpha |-> FALSE]

\* _alpha_array: None when the RGBA form of the image has no "A" band.
_alpha_array(img) ==
    LET rgba == ensure_rgba(img)
    IN  IF "A" \notin getbands(rgba) THEN [none |-> TRUE]
        ELSE [none |-> FALSE, w |-> rgba.w, h |-> rgba.h, a |-> Band(rgba, 4)]

\* A mutant of compute_alpha_stats: a zero sample also counts as "mid".
compute_alpha_stats_midzero(arr) ==
    LET total    == Len(arr.a)
        IsZero(v) == v = 0
        Is255(v)  == v = 255
        IsMid(v)  == v < 255
    IN  [width    |-> arr.w,
         height   |-> arr.h,
         min      |-> MinSeq(arr.a),
         max      |-> MaxSeq(arr.a),
         mean     |-> Frac(SumSeq(arr.a), total),
         std2     |-> Frac(0, 1),
         pct_zero |-> Frac(CountIf(arr.a, IsZero) * 100, total),
         pct_255  |-> Frac(CountIf(arr.a, Is255) * 100, total),
         pct_mid  |-> Frac(CountIf(arr.a, IsMid) * 100, total)]

compute_alpha_stats(arr) ==
    LET total  == Len(arr.a)
        sum    == SumSeq(arr.a)
        sumsq  == SumSeq([k \in 1..total |-> arr.a[k] * arr.a[k]])
        IsZero(v) == v = 0
        Is255(v)  == v = 255
        IsMid(v)  == v > 0 /\ v < 255
    IN  [width    |-> arr.w,
         height   |-> arr.h,
         min      |-> MinSeq(arr.a),
         max      |-> MaxSeq(arr.a),
         mean     |-> Frac(sum, total),
         std2     |-> Frac(total * sumsq - sum * sum, total * total),
         pct_zero |-> Frac(CountIf(arr.a, IsZero) * 100, total),
         pct_255  |-> Frac(CountIf(arr.a, Is255) * 100, total),
         pct_mid  |-> Frac(CountIf(arr.a, IsMid) * 100, total)]

\* std < warn_std_lt, on the squares (std >= 0).
StdLess(stats, t) ==
    /\ t.num > 0
    /\ FracLT(stats.std2, Frac(t.num * t.num, t.den * t.den))

M_no_alpha    == "No alpha channel."
M_opaque      == "Alpha is ~all opaque"
M_transparent == "Alpha is ~all transparent"
M_constant    == "Alpha is near-constant"

\* One "if <test>: messages.append(msg); status = WARN" of validate_alpha_file
\* (the numbers formatted into the message text are left out).
RuleStep(acc, test, msg) ==
    IF test THEN [messages |-> Append(acc.messages, msg), status |-> "WARN"] ELSE acc

\* A mutant of ApplyRules: the three tests chained with elif.
ApplyRules_elif(stats, rules) ==
    IF FracGE(stats.pct_255, rules.warn_pct_255)
    THEN [messages |-> <<M_opaque>>, status |-> "WARN"]
    ELSE IF FracGE(stats.pct_zero, rules.warn_pct_zero)
    THEN [messages |-> <<M_transparent>>, status |-> "WARN"]
    ELSE IF StdLess(stats, rules.warn_std_lt) /\ stats.max - stats.min <= rules.warn_range_le
    THEN [messages |-> <<M_constant>>, status |-> "WARN"]
    ELSE [messages |-> <<>>, status |-> "PASS"]

\* The three independent tests, applied in order from status PASS.
ApplyRules(stats, rules) ==
    LET s0 == [messages |-> <<>>, status |-> "PASS"]
        s1 == RuleStep(s0, FracGE(stats.pct_255, rules.warn_pct_255), M_opaque)
        s2 == RuleStep(s1, FracGE(stats.pct_zero, rules.warn_pct_zero), M_transparent)
        s3 == RuleStep(s2, StdLess(stats, rules.warn_std_lt)
                             /\ stats.max - stats.min <= rules.warn_range_le, M_constant)
    IN  s3

\* The last statements of validate_alpha_file: the result for an image
\* with an alpha plane.
ValidateStats(stats, out, p) ==
    Ok([path |-> PathStr(p), has_alpha |-> TRUE, status |-> out.status,
        messages |-> out.messages, stats |-> stats])

\* validate_alpha_file from "if alpha_arr is None" on.
ValidateArray(alpha_arr, p, rules) ==
    IF alpha_arr.none
    THEN Ok([path |-> PathStr(p), has_alpha |-> FALSE,
             status |-> IF rules.fail_no_alpha THEN "FAIL" ELSE "WARN",
             messages |-> <<M_no_alpha>>, stats |-> NoFile])
    ELSE ValidateStats(compute_alpha_stats(alpha_arr),
                       ApplyRules(compute_alpha_stats(alpha_arr), rules), p)

\* validate_alpha_file once load_image has returned or raised.
ValidateLoaded(img, p, rules) ==
    IF ~img.ok THEN img ELSE ValidateArray(_alpha_array(img.val), p, rules)

validate_alpha_file(disk, p, rules) == ValidateLoaded(load_image(disk, p), p, rules)

(***************************************************************************)
(* A caller of validate_alpha_file: it stores an image of up to MaxPixels  *)
(* pixels in a file, picks the rules, and validates the file once.         *)
(***************************************************************************)
MaxPixels == 3

\* The sample values a pixel's last band takes in the model.
Samples == {0, 1, 2, 255}

\* A pixel of the given mode whose last band (alpha for RGBA) is v.
PixelOf(mode, v) ==
    IF mode = "RGBA" THEN <<10, 20, 30, v>>
    ELSE IF mode = "RGB" THEN <<10, 20, v>>
    ELSE <<v>>

ValRules ==
    { [warn_pct_255 |-> p255, warn_pct_zero |-> Frac(999, 10), warn_std_lt |-> st,
       warn_range_le |-> rg, fail_no_alpha |-> fna] :
        p255 \in {Frac(999, 10), Frac(50, 1)},
        st \in {Frac(1, 1), Frac(4, 10)},
        rg \in {2, 0},
        fna \in BOOLEAN }

ValInit ==
    /\ v_pc = "input"
    /\ v_img \in {[mode |-> m, w |-> 0, h |-> 1, px |-> <<>>] : m \in {"RGBA", "RGB", "L"}}
    /\ v_rules \in ValRules
    /\ v_res = NoFile
    /\ PairIdle
    /\ ImgIdle
    /\ BatchIdle

AddPixel ==
    /\ v_pc = "input"
    /\ v_img.w < MaxPixels
    /\ \E v \in Samples :
         v_img' = [v_img EXCEPT !.w = @ + 1, !.px = Append(@, PixelOf(v_img.mode, v))]
    /\ UNCHANGED <<v_pc, v_rules, v_res>>
    /\ UNCHANGED <<pairVars, imgVars, batchVars>>

CallValidateFile ==
    /\ v_pc = "input"
    /\ v_img.w >= 1
    /\ v_res' = validate_alpha_file([f \in {P_cat} |-> [kind |-> "png", img |-> v_img]],
                                    P_cat, v_rules)
    /\ v_pc' = "done"
    /\ UNCHANGED <<v_img, v_rules>>
    /\ UNCHANGED <<pairVars, imgVars, batchVars>>

ValNext == AddPixel \/ CallValidateFile

SpecValidate == ValInit /\ [][ValNext]_vars

(***************************************************************************)
(* Properties of validate_alpha_file.                                      *)
(***************************************************************************)
\* C6: validate_alpha_file on an image without an alpha band returns
\* has_alpha = false, no stats, the single message "No alpha channel.", and
\* status FAIL when rules.fail_no_alpha, WARN otherwise.
C6_NoAlphaResult ==
    (v_pc = "done" /\ "A" \notin getbands(v_img)) =>
        /\ v_res.ok
        /\ v_res.val.has_alpha = FALSE
        /\ v_res.val.stats = NoFile
        /\ v_res.val.messages = <<M_no_alpha>>
        /\ v_res.val.status = (IF v_rules.fail_no_alpha THEN "FAIL" ELSE "WARN")

\* The alpha samples of the validated image, and the three rules, stated on
\* the samples themselves.
AlphaSamples == [k \in 1..Len(v_img.px) |-> v_img.px[k][4]]

NumEqual(v) == Cardinality({k \in 1..Len(AlphaSamples) : AlphaSamples[k] = v})

\* pct >= warn, with pct = 100 * count / n
PctAtLeast(count, warn) == count * 100 * warn.den >= warn.num * Len(AlphaSamples)

\* std < t, with n^3 * std^2 the sum of the squared deviations (n * v - sum)
DevSquares ==
    LET n == Len(AlphaSamples)
        d == [k \in 1..n |-> (n * AlphaSamples[k] - SumSeq(AlphaSamples))
                              * (n * AlphaSamples[k] - SumSeq(AlphaSamples))]
    IN  SumSeq(d)

StdBelow(t) ==
    LET n == Len(AlphaSamples)
    IN  t.num > 0 /\ DevSquares * t.den * t.den < t.num * t.num * n * n * n

RangeOf == MaxSeq(AlphaSamples) - MinSeq(AlphaSamples)

Rule1 == PctAtLeast(NumEqual(255), v_rules.warn_pct_255)
Rule2 == PctAtLeast(NumEqual(0), v_rules.warn_pct_zero)
Rule3 == StdBelow(v_rules.warn_std_lt) /\ RangeOf <= v_rules.warn_range_le

ExpectedMessages ==
    (IF Rule1 THEN <<M_opaque>> ELSE <<>>)
    \o (IF Rule2 THEN <<M_transparent>> ELSE <<>>)
    \o (IF Rule3 THEN <<M_constant>> ELSE <<>>)

\* C7: for an image with an alpha band validate_alpha_file never returns
\* FAIL; the status is PASS exactly when none of the three rules matches and
\* WARN otherwise; messages holds one message per matching rule, in rule
\* order; an all-255 alpha under the default rules gives WARN with the
\* near-all-opaque and the near-constant message and pct_255 = 100.
C7_RulesOnAlphaImage ==
    (v_pc = "done" /\ "A" \in getbands(v_img)) =>
        /\ v_res.ok
        /\ v_res.val.has_alpha
        /\ v_res.val.status # "FAIL"
        /\ v_res.val.status = "PASS" <=> ~(Rule1 \/ Rule2 \/ Rule3)
        /\ v_res.val.status = "WARN" <=> (Rule1 \/ Rule2 \/ Rule3)
        /\ v_res.val.messages = ExpectedMessages
        /\ ((\A k \in 1..Len(AlphaSamples) : AlphaSamples[k] = 255) /\ v_rules = default_rules)
             => /\ v_res.val.status = "WARN"
                /\ v_res.val.messages = <<M_opaque, M_constant>>
                /\ v_res.val.stats.pct_255.num = 100 * v_res.val.stats.pct_255.den

\* An all-255 RGBA image validated under the default rules.
C7_Witness ==
    /\ v_pc = "done"
    /\ v_img.mode = "RGBA"
    /\ v_rules = default_rules
    /\ AlphaSamples = <<255, 255>>
    /\ v_res.val.messages = <<M_opaque, M_constant>>

(***************************************************************************)
(* io.py: the overwrite gate, output paths, path expansion.  A disk is a   *)
(* function from the canonical path of each regular file to its content;   *)
(* directories are the proper prefixes of those paths.                     *)
(***************************************************************************)
Png(img) == [kind |-> "png", img |-> img]

\* The disk after img.save(path, format="PNG"); safe_mkdir creates the
\* parent directories, which the model holds implicitly.
WriteKey(disk, key, content) ==
    [q \in DOMAIN disk \cup {key} |-> IF q = key THEN content ELSE disk[q]]

WriteFile(disk, p, content) == WriteKey(disk, Resolve(p), content)

IsPrefix(a, b) == Len(a) <= Len(b) /\ SubSeq(b, 1, Len(a)) = a

\* Path.is_dir()
HasFileBelow(disk, base) ==
    \E q \in DOMAIN disk : Len(Parts(q)) > Len(base) /\ IsPrefix(base, Parts(q))

is_dir(disk, p) == HasFileBelow(disk, Parts(Resolve(p)))

\* Path.exists()
PathExists(disk, p) == Resolve(p) \in DOMAIN disk \/ is_dir(disk, p)

\* A mutant of save_png: no overwrite gate.
save_png_nogate(disk, img, p, overwrite) ==
    [ok |-> TRUE, disk |-> WriteFile(disk, p, Png(img)), err |-> "none"]

\* save_png: returns the disk after the call and whether it raised.
save_png(disk, img, p, overwrite) ==
    IF PathExists(disk, p) /\ ~overwrite
    THEN [ok |-> FALSE, disk |-> disk,
          err |-> "AlphaIOError: Refusing to overwrite existing file"]
    ELSE [ok |-> TRUE, disk |-> WriteFile(disk, p, Png(img)), err |-> "none"]

save_mask_png(disk, mask, p, overwrite) == save_png(disk, ensure_l(mask), p, overwrite)

S_png == <<46, 112, 110, 103>>     \* ".png"

\* infer_output_path(in_path, out_dir, suffix=..., ext=".png")
infer_output_path(in_path, out_dir, suffix, ext) ==
    [dirs |-> Parts(out_dir), name |-> PathStem(in_path) \o suffix \o ext]

\* Order of two paths (PurePath.__lt__): their parts, compared as lists.
RECURSIVE PartsLess(_, _)
PartsLess(a, b) ==
    IF b = <<>> THEN FALSE
    ELSE IF a = <<>> THEN TRUE
    ELSE IF a[1] # b[1] THEN StrLess(a[1], b[1])
    ELSE PartsLess(Tail(a), Tail(b))

\* sorted(p.rglob("*")) restricted to regular files: every file below p, as
\* p joined with its path below p, in path order.
RECURSIVE SortedPaths(_)
SortedPaths(S) ==
    IF S = {} THEN <<>>
    ELSE LET least == CHOOSE x \in S : \A y \in S \ {x} : PartsLess(Parts(x), Parts(y))
         IN  <<least>> \o SortedPaths(S \ {least})

BelowBase(disk, p, base) ==
    { PathOf(Parts(p) \o SubSeq(Parts(q), Len(base) + 1, Len(Parts(q)))) :
        q \in {f \in DOMAIN disk : Len(Parts(f)) > Len(base) /\ IsPrefix(base, Parts(f))} }

Below(disk, p) == BelowBase(disk, p, Parts(Resolve(p)))

\* The first loop of expand_inputs.
RECURSIVE ExpandAll(_, _)
ExpandAll(disk, paths) ==
    IF paths = <<>> THEN <<>>
    ELSE LET p == paths[1]
             here == IF is_dir(disk, p)
                     THEN LET IsImg(child) == is_image_file(DOMAIN disk, child)
                          IN  SelectSeq(SortedPaths(Below(disk, p)), IsImg)
                     ELSE IF is_image_file(DOMAIN disk, p) THEN <<p>>
                     ELSE <<>>
         IN  here \o ExpandAll(disk, Tail(paths))

\* The second loop of expand_inputs: keep the first path of each canonical path.
RECURSIVE Unique(_, _, _)
Unique(out, seen, uniq) ==
    IF out = <<>> THEN uniq
    ELSE LET key == PathStr(Resolve(out[1]))
         IN  IF key \notin seen
             THEN Unique(Tail(out), seen \cup {key}, Append(uniq, out[1]))
             ELSE Unique(Tail(out), seen, uniq)

expand_inputs(disk, paths) == Unique(ExpandAll(disk, paths), {}, <<>>)

(***************************************************************************)
(* ops_split.py                                                            *)
(***************************************************************************)
AlphaIOError_no_alpha == "AlphaIOError: Image has no alpha channel."

\* Image.new("L", size, color=255)
NewL(w, h, v) == [mode |-> "L", w |-> w, h |-> h, px |-> [k \in 1..(w * h) |-> <<v>>]]

\* A mutant of SplitRgba: the mask returned is opaque whatever the image.
SplitRgba_opaque(rgba, on_missing_alpha) ==
    Ok([rgb |-> ensure_rgb(rgba), alpha |-> NewL(rgba.w, rgba.h, 255)])

\* split_alpha after rgba = ensure_rgba(img).
SplitRgba(rgba, on_missing_alpha) ==
    IF "A" \notin getbands(rgba)
    THEN IF on_missing_alpha = "error" THEN Raise(AlphaIOError_no_alpha)
         ELSE Ok([rgb |-> ensure_rgb(rgba), alpha |-> NewL(rgba.w, rgba.h, 255)])
    ELSE Ok([rgb   |-> [mode |-> "RGB", w |-> rgba.w, h |-> rgba.h,
                        px |-> [k \in 1..Len(rgba.px) |->
                                  <<rgba.px[k][1], rgba.px[k][2], rgba.px[k][3]>>]],
             alpha |-> [mode |-> "L", w |-> rgba.w, h |-> rgba.h,
                        px |-> [k \in 1..Len(rgba.px) |-> <<rgba.px[k][4]>>]]])

split_alpha(img, on_missing_alpha) == SplitRgba(ensure_rgba(img), on_missing_alpha)

\* A file-level call that raised before writing anything.
Failed(disk, r) == [ok |-> FALSE, disk |-> disk, err |-> r.err]

\* split_alpha_file: load, split, save the RGB image, then save the mask.
\* Returns [ok, disk, err]: the disk holds whatever was written before a raise.
SplitSaveAlpha(s1, alpha, out_alpha_path, overwrite) ==
    IF ~s1.ok THEN s1 ELSE save_mask_png(s1.disk, alpha, out_alpha_path, overwrite)

SplitSave(disk, parts, out_rgb_path, out_alpha_path, overwrite) ==
    IF ~parts.ok THEN Failed(disk, parts)
    ELSE SplitSaveAlpha(save_png(disk, parts.val.rgb, out_rgb_path, overwrite),
                        parts.val.alpha, out_alpha_path, overwrite)

SplitLoaded(img, on_missing_alpha) ==
    IF ~img.ok THEN img ELSE split_alpha(img.val, on_missing_alpha)

split_alpha_file(disk, in_path, out_rgb_path, out_alpha_path, overwrite, on_missing_alpha) ==
    SplitSave(disk, SplitLoaded(load_image(disk, in_path), on_missing_alpha),
              out_rgb_path, out_alpha_path, overwrite)

(***************************************************************************)
(* ops_combine.py                                                          *)
(***************************************************************************)
_resample_to_pil(resample) == IF resample = "bilinear" THEN "BILINEAR" ELSE "NEAREST"

\* Image.resize(size, resample=NEAREST): output pixel (x, y) is the input
\* pixel under its centre.
ResizeNearest(img, w, h) ==
    [mode |-> img.mode, w |-> w, h |-> h,
     px |-> [k \in 1..(w * h) |->
               LET x  == (k - 1) % w
                   y  == (k - 1) \div w
                   sx == ((2 * x + 1) * img.w) \div (2 * w)
                   sy == ((2 * y + 1) * img.h) \div (2 * h)
               IN  img.px[sy * img.w + sx + 1]]]

\* Image.resize(size, resample=BILINEAR) on one axis of an L image: output
\* sample xx is the mean of the input samples weighted by the triangle
\* filter around its centre, the filter stretched by the scale when the
\* image shrinks, rounded half up.  TriWeight is the weight of input sample
\* x times 2 * max(n_in, n_out).
TriWeight(x, xx, n_in, n_out) ==
    LET d == (2 * x + 1) * n_out - (2 * xx + 1) * n_in
        m == 2 * (IF n_in > n_out THEN n_in ELSE n_out)
    IN  IF d >= m \/ 0 - d >= m THEN 0 ELSE IF d < 0 THEN m + d ELSE m - d

RECURSIVE WeightSum(_, _, _, _, _)
WeightSum(row, x, xx, n_in, n_out) ==
    IF x = n_in THEN [sum |-> 0, wt |-> 0]
    ELSE [sum |-> WeightSum(row, x + 1, xx, n_in, n_out).sum
                    + TriWeight(x, xx, n_in, n_out) * row[x + 1],
          wt  |-> WeightSum(row, x + 1, xx, n_in, n_out).wt
                    + TriWeight(x, xx, n_in, n_out)]

RoundedMean(t) == (2 * t.sum + t.wt) \div (2 * t.wt)

Resample1D(row, n_out) ==
    [xx \in 1..n_out |-> RoundedMean(WeightSum(row, 0, xx - 1, Len(row), n_out))]

\* The horizontal pass, then the vertical pass on its 8-bit result.
HorizontalPass(img, w) ==
    [y \in 1..img.h |->
        Resample1D([x \in 1..img.w |-> img.px[(y - 1) * img.w + x][1]], w)]

VerticalPass(rows, w, h) ==
    [x \in 1..w |-> Resample1D([y \in 1..Len(rows) |-> rows[y][x]], h)]

PixelsOf(cols, w, h) ==
    [k \in 1..(w * h) |-> << cols[((k - 1) % w) + 1][((k - 1) \div w) + 1] >>]

ResizeBilinear(img, w, h) ==
    [mode |-> img.mode, w |-> w, h |-> h,
     px |-> PixelsOf(VerticalPass(HorizontalPass(img, w), w, h), w, h)]

\* mask.resize(rgb.size, resample=...)
Resize(img, w, h, filter) ==
    IF filter = "BILINEAR" THEN ResizeBilinear(img, w, h) ELSE ResizeNearest(img, w, h)

\* str() of an image size, as the error message shows it.
SizeStr(img) == "(" \o ToString(img.w) \o ", " \o ToString(img.h) \o ")"

SizeMismatch(rgb, mask) ==
    "AlphaIOError: Mask size " \o SizeStr(mask) \o " does not match RGB size "
        \o SizeStr(rgb) \o "."

\* Image.eval(mask, lambda v: 255 - v)
Invert(mask) == [mask EXCEPT !.px = [k \in 1..Len(mask.px) |-> <<255 - mask.px[k][1]>>]]

\* combine_alpha after rgb = ensure_rgb(rgb_img) and mask = ensure_l(alpha_mask).
CombineMerge(rgb, mask) ==
    Ok([mode |-> "RGBA", w |-> rgb.w, h |-> rgb.h,
        px |-> [k \in 1..Len(rgb.px) |->
                  <<rgb.px[k][1], rgb.px[k][2], rgb.px[k][3], mask.px[k][1]>>]])

CombineInvert(rgb, mask, invert) ==
    CombineMerge(rgb, IF invert THEN Invert(mask) ELSE mask)

\* A mutant of CombineSized: a mask of another size is always resized.
CombineSized_silent(rgb, mask, invert, resize_mode, resample) ==
    CombineInvert(rgb, Resize(mask, rgb.w, rgb.h, _resample_to_pil(resample)), invert)

CombineSized(rgb, mask, invert, resize_mode, resample) ==
    IF mask.w # rgb.w \/ mask.h # rgb.h
    THEN IF resize_mode = "error"
         THEN Raise(SizeMismatch(rgb, mask))
         ELSE CombineInvert(rgb, Resize(mask, rgb.w, rgb.h, _resample_to_pil(resample)),
                            invert)
    ELSE CombineInvert(rgb, mask, invert)

combine_alpha(rgb_img, alpha_mask, invert, resize_mode, resample) ==
    CombineSized(ensure_rgb(rgb_img), ensure_l(alpha_mask), invert, resize_mode, resample)

CombineSave(disk, out, out_path, overwrite) ==
    IF ~out.ok THEN Failed(disk, out) ELSE save_png(disk, out.val, out_path, overwrite)

CombineLoaded(disk, rgb, a, out_path, invert, resize_mode, resample, overwrite) ==
    IF ~rgb.ok THEN Failed(disk, rgb)
    ELSE IF ~a.ok THEN Failed(disk, a)
    ELSE CombineSave(disk, combine_alpha(rgb.val, a.val, invert, resize_mode, resample),
                     out_path, overwrite)

combine_alpha_file(disk, rgb_path, alpha_path, out_path, invert, resize_mode, resample, overwrite) ==
    CombineLoaded(disk, load_image(disk, rgb_path), load_image(disk, alpha_path),
                  out_path, invert, resize_mode, resample, overwrite)

(***************************************************************************)
(* ops_generate.py                                                         *)
(***************************************************************************)
\* GenerateOptions() with its defaults.
default_generate_options ==
    [kind |-> "luminance", threshold |-> 128, key_color |-> <<0, 0, 0>>,
     tolerance |-> 20, invert |-> FALSE]

generate_alpha_luminance(img) == Convert(ensure_rgb(img), "L")

\* A mutant of Binarize: a sample equal to the threshold becomes 0.
Binarize_strict(lum, threshold) ==
    [lum EXCEPT !.px = [k \in 1..Len(lum.px) |->
                          IF lum.px[k][1] > threshold THEN <<255>> ELSE <<0>>]]

\* np.where(arr >= threshold, 255, 0)
Binarize(lum, threshold) ==
    [lum EXCEPT !.px = [k \in 1..Len(lum.px) |->
                          IF lum.px[k][1] >= threshold THEN <<255>> ELSE <<0>>]]

generate_alpha_threshold(img, threshold) ==
    IF ~(0 <= threshold /\ threshold <= 255)
    THEN Raise("AlphaIOError: threshold must be between 0 and 255")
    ELSE Ok(Binarize(generate_alpha_luminance(img), threshold))

Abs(n) == IF n < 0 THEN -n ELSE n

Max3(a, b, c) == IF a >= b /\ a >= c THEN a ELSE IF b >= c THEN b ELSE c

\* Chebyshev distance of a pixel to the key colour.
Dist(px, key_rgb) ==
    Max3(Abs(px[1] - key_rgb[1]), Abs(px[2] - key_rgb[2]), Abs(px[3] - key_rgb[3]))

\* np.where(dist <= tolerance, 0, 255)
KeyOut(rgb, key_rgb, tolerance) ==
    [mode |-> "L", w |-> rgb.w, h |-> rgb.h,
     px |-> [k \in 1..Len(rgb.px) |->
               IF Dist(rgb.px[k], key_rgb) <= tolerance THEN <<0>> ELSE <<255>>]]

generate_alpha_colorkey(img, key_rgb, tolerance) ==
    IF ~(0 <= tolerance /\ tolerance <= 255)
    THEN Raise("AlphaIOError: tolerance must be between 0 and 255")
    ELSE Ok(KeyOut(ensure_rgb(img), key_rgb, tolerance))

\* A mutant of _maybe_invert: the mask is never inverted.
_maybe_invert_never(mask, invert) == ensure_l(mask)

_maybe_invert(mask, invert) ==
    IF ~invert THEN ensure_l(mask) ELSE Invert(ensure_l(mask))

\* The dispatch on opts.kind.
GenerateMask(img, o) ==
    IF o.kind = "luminance" THEN Ok(generate_alpha_luminance(img))
    ELSE IF o.kind = "threshold" THEN generate_alpha_threshold(img, o.threshold)
    ELSE IF o.kind = "colorkey" THEN generate_alpha_colorkey(img, o.key_color, o.tolerance)
    ELSE Raise("AlphaIOError: Unknown generation kind")

GenerateSave(disk, mask, invert, out_mask_path, overwrite) ==
    IF ~mask.ok THEN Failed(disk, mask)
    ELSE save_mask_png(disk, _maybe_invert(mask.val, invert), out_mask_path, overwrite)

GenerateLoaded(disk, img, out_mask_path, o, overwrite) ==
    IF ~img.ok THEN Failed(disk, img)
    ELSE GenerateSave(disk, GenerateMask(img.val, o), o.invert, out_mask_path, overwrite)

generate_alpha_file(disk, in_path, out_mask_path, o, overwrite) ==
    GenerateLoaded(disk, load_image(disk, in_path), out_mask_path, o, overwrite)

(***************************************************************************)
(* The batch drivers: split_alpha_files, combine_alpha_files,              *)
(* generate_alpha_files, validate_alpha_files.  One call runs on a worker  *)
(* thread; another thread may set cancel_flag at any moment.               *)
(***************************************************************************)
MaxInputs == 2     \* longest in_paths / pairs list given to a batch call

S_rgba_suffix == <<95, 114, 103, 98, 97>>     \* "_rgba"

D_a == << <<97>> >>       \* directory a
D_b == << <<98>> >>       \* directory b

P_a   == [dirs |-> <<>>, name |-> <<97>>]                       \* a (a directory)
P_out == [dirs |-> <<>>, name |-> <<111, 117, 116>>]            \* out (the output directory)
P_a_x == [dirs |-> D_a, name |-> <<120, 46, 112, 110, 103>>]    \* a/x.png: RGBA, 2x1
P_b_x == [dirs |-> D_b, name |-> <<120, 46, 112, 110, 103>>]    \* b/x.png: RGB, 1x1
P_a_y == [dirs |-> D_a, name |-> <<121, 46, 112, 110, 103>>]    \* a/y.png: does not decode
P_a_n == [dirs |-> D_a, name |-> <<110, 46, 116, 120, 116>>]    \* a/n.txt: not an image
P_a_z == [dirs |-> D_a, name |-> <<122, 46, 112, 110, 103>>]    \* a/z.png: not on disk
P_a_m == [dirs |-> D_a, name |-> <<109, 46, 112, 110, 103>>]    \* a/m.png: L mask, 2x1

Img_x   == [mode |-> "RGBA", w |-> 2, h |-> 1, px |-> << <<10, 20, 30, 0>>, <<200, 100, 50, 255>> >>]
Img_bx  == [mode |-> "RGB", w |-> 1, h |-> 1, px |-> << <<255, 255, 255>> >>]
Img_m   == [mode |-> "L", w |-> 2, h |-> 1, px |-> << <<0>>, <<130>> >>]
Img_old == [mode |-> "L", w |-> 1, h |-> 1, px |-> << <<7>> >>]

\* The input files of every run.
InputDisk ==
    [q \in {P_a_x, P_b_x, P_a_y, P_a_n, P_a_m} |->
        IF q = P_a_x THEN Png(Img_x)
        ELSE IF q = P_b_x THEN Png(Img_bx)
        ELSE IF q = P_a_m THEN Png(Img_m)
        ELSE IF q = P_a_y THEN [kind |-> "corrupt"]
        ELSE [kind |-> "other"]]

\* Output files that may exist before the batch starts.
OldOutputs ==
    { infer_output_path(P_a_x, P_out, S_rgb_suffix, S_png),
      infer_output_path(P_a_x, P_out, S_alpha_suffix, S_png),
      infer_output_path(P_a_x, P_out, S_rgba_suffix, S_png) }

StartDisks ==
    { [q \in DOMAIN InputDisk \cup old |-> IF q \in old THEN Png(Img_old) ELSE InputDisk[q]] :
        old \in {{}} \cup {{q} : q \in OldOutputs} }

InputUniverse == {P_a_x, P_b_x, P_a_y, P_a_n, P_a_z, P_a}

PairUniverse == { <<P_a_x, P_a_m>>, <<P_b_x, P_a_m>>, <<P_a_y, P_a_m>>, <<P_a_x, P_a_z>> }

\* All lists of at most n elements of S.
RECURSIVE ListsUpTo(_, _)
ListsUpTo(S, n) ==
    IF n = 0 THEN {<<>>}
    ELSE LET shorter == ListsUpTo(S, n - 1)
         IN  shorter \cup {Append(l, x) : l \in shorter, x \in S}

GenerateChoices ==
    { default_generate_options,
      [default_generate_options EXCEPT !.invert = TRUE],
      [default_generate_options EXCEPT !.kind = "threshold"],
      [default_generate_options EXCEPT !.kind = "threshold", !.threshold = 256],
      [default_generate_options EXCEPT !.kind = "colorkey"],
      [default_generate_options EXCEPT !.kind = "posterize"] }

\* The options of the generate batches: one that succeeds, one whose
\* threshold is out of range, one of unknown kind.
BatchGenerateChoices ==
    { g \in GenerateChoices :
        ~g.invert /\ (g.kind \in {"luminance", "posterize"} \/ g.threshold > 255) }

BatchInit ==
    /\ op = "none"
    /\ opts = NoFile
    /\ files = <<>>
    /\ fs \in StartDisks
    /\ fs0 = fs
    /\ pc = "idle"
    /\ i = 0
    /\ cancel_flag = FALSE
    /\ outputs = <<>>
    /\ progress = <<>>
    /\ visited = <<>>
    /\ error = "none"
    /\ PairIdle
    /\ ValIdle
    /\ ImgIdle

\* The first lines of a *_files call: the work list, total, the empty result.
Begin(name, o, work) ==
    /\ op' = name
    /\ opts' = o
    /\ files' = work
    /\ i' = 1
    /\ pc' = "top"
    /\ UNCHANGED <<fs, fs0, cancel_flag, outputs, progress, visited, error>>
    /\ UNCHANGED <<pairVars, valVars, imgVars>>

StartSplit ==
    /\ pc = "idle"
    /\ \E in_paths \in ListsUpTo(InputUniverse, MaxInputs),
          ov \in BOOLEAN, coe \in BOOLEAN, oma \in {"opaque", "error", "skip"} :
           Begin("split",
                 [in_paths |-> in_paths, out_dir |-> P_out,
                  rgb_suffix |-> S_rgb_suffix, alpha_suffix |-> S_alpha_suffix,
                  overwrite |-> ov, on_missing_alpha |-> oma, continue_on_error |-> coe,
                  progress_cb |-> TRUE],
                 expand_inputs(fs, in_paths))

\* The resize_mode and resample of a combine call: the known values, and
\* one value of each that the signature does not list.
ResizeChoices ==
    { <<"error", "nearest">>, <<"resize", "nearest">>, <<"resize", "bilinear">>,
      <<"stretch", "nearest">>, <<"resize", "cubic">> }

StartCombine ==
    /\ pc = "idle"
    /\ \E prs \in ListsUpTo(PairUniverse, MaxInputs),
          ov \in BOOLEAN, coe \in BOOLEAN, inv \in BOOLEAN, rz \in ResizeChoices :
           Begin("combine",
                 [pairs |-> prs, out_dir |-> P_out, out_suffix |-> S_rgba_suffix, invert |-> inv,
                  resize_mode |-> rz[1], resample |-> rz[2], overwrite |-> ov,
                  continue_on_error |-> coe, progress_cb |-> TRUE],
                 prs)

StartGenerate ==
    /\ pc = "idle"
    /\ \E in_paths \in ListsUpTo(InputUniverse, MaxInputs),
          ov \in BOOLEAN, coe \in BOOLEAN, g \in BatchGenerateChoices :
           Begin("generate",
                 [in_paths |-> in_paths, out_dir |-> P_out, opts |-> g,
                  out_suffix |-> S_alpha_suffix, overwrite |-> ov,
                  continue_on_error |-> coe, progress_cb |-> TRUE],
                 expand_inputs(fs, in_paths))

\* validate_alpha_files takes list(paths) as its work list.
StartValidate ==
    /\ pc = "idle"
    /\ \E paths \in ListsUpTo(InputUniverse, MaxInputs),
          coe \in BOOLEAN, fna \in BOOLEAN :
           Begin("validate",
                 [paths |-> paths, rules |-> [default_rules EXCEPT !.fail_no_alpha = fna],
                  continue_on_error |-> coe, progress_cb |-> TRUE],
                 paths)

\* Another thread calls cancel_flag.set() while the batch runs.
SetCancel ==
    /\ pc \in {"top", "item"}
    /\ ~cancel_flag
    /\ cancel_flag' = TRUE
    /\ UNCHANGED <<op, opts, files, fs, fs0, pc, i, outputs, progress, visited, error>>
    /\ UNCHANGED <<pairVars, valVars, imgVars>>

total == Len(files)

\* The output paths a batch infers for one item.
ItemOutputs(name, o, item) ==
    IF name = "split"
    THEN << infer_output_path(item, o.out_dir, o.rgb_suffix, S_png),
            infer_output_path(item, o.out_dir, o.alpha_suffix, S_png) >>
    ELSE IF name = "combine"
    THEN << infer_output_path(item[1], o.out_dir, o.out_suffix, S_png) >>
    ELSE IF name = "generate"
    THEN << infer_output_path(item, o.out_dir, o.out_suffix, S_png) >>
    ELSE <<>>

\* The outcome of the try block for one item: [ok, disk, err, outs], outs
\* being what the batch adds to its result when the call returns.
WithOuts(r, outs) == [ok |-> r.ok, disk |-> r.disk, err |-> r.err, outs |-> outs]

ValidateOutcome(disk, r) ==
    IF r.ok THEN [ok |-> TRUE, disk |-> disk, err |-> "none", outs |-> <<r.val>>]
    ELSE [ok |-> FALSE, disk |-> disk, err |-> r.err, outs |-> <<>>]

RunOn(name, o, disk, item, outp) ==
    IF name = "split"
    THEN WithOuts(split_alpha_file(disk, item, outp[1], outp[2], o.overwrite,
                                   o.on_missing_alpha), outp)
    ELSE IF name = "combine"
    THEN WithOuts(combine_alpha_file(disk, item[1], item[2], outp[1], o.invert,
                                     o.resize_mode, o.resample, o.overwrite), outp)
    ELSE IF name = "generate"
    THEN WithOuts(generate_alpha_file(disk, item, outp[1], o.opts, o.overwrite), outp)
    ELSE ValidateOutcome(disk, validate_alpha_file(disk, item, o.rules))

RunItem(name, o, disk, item) == RunOn(name, o, disk, item, ItemOutputs(name, o, item))

\* Mutants of OnFailure: a batch that always re-raises, and one that never does.
OnFailure_raise(continue_on_error) == "raise"

OnFailure_swallow(continue_on_error) == "continue"

\* except Exception: if not continue_on_error: raise
OnFailure(continue_on_error) == IF ~continue_on_error THEN "raise" ELSE "continue"

\* A mutant of FailureResults: validate skips a failed item like the others.
FailureResults_skip(name, item, err) == <<>>

\* What the except block adds to the result for a swallowed failure: the
\* validate batch appends a FAIL result, the others nothing.
FailureResults(name, item, err) ==
    IF name = "validate"
    THEN << [path |-> PathStr(item), has_alpha |-> FALSE, status |-> "FAIL",
             messages |-> << <<"Error reading/processing file: ", err>> >>,
             stats |-> NoFile] >>
    ELSE <<>>

\* Whether the statements after the try block run for a swallowed failure:
\* split, combine and generate "continue" past the Done callback.
DoneAfterFailure(name) == name = "validate"

\* A mutant of LoopTop: the flag is never looked at.
LoopTop_nocheck ==
    /\ pc = "top"
    /\ IF i > total
       THEN /\ pc' = "returned"
            /\ UNCHANGED progress
       ELSE /\ pc' = "item"
            /\ progress' = IF opts.progress_cb THEN Append(progress, <<i - 1, total>>)
                           ELSE progress
    /\ UNCHANGED <<op, opts, files, fs, fs0, i, cancel_flag, outputs, visited, error>>
    /\ UNCHANGED <<pairVars, valVars, imgVars>>

\* The top of the for loop: the end of the work list, the cancellation check,
\* then the callback that announces the item.
LoopTop ==
    /\ pc = "top"
    /\ IF i > total
       THEN /\ pc' = "returned"
            /\ UNCHANGED progress
       ELSE IF cancel_flag
       THEN /\ pc' = "returned"
            /\ UNCHANGED progress
       ELSE /\ pc' = "item"
            /\ progress' = IF opts.progress_cb THEN Append(progress, <<i - 1, total>>)
                           ELSE progress
    /\ UNCHANGED <<op, opts, files, fs, fs0, i, cancel_flag, outputs, visited, error>>
    /\ UNCHANGED <<pairVars, valVars, imgVars>>

\* What follows the try block, r being its outcome: the except block or
\* the Done callback.
AfterTry(r) ==
    /\ fs' = r.disk
    /\ visited' = Append(visited, [n |-> i, ok |-> r.ok])
    /\ IF r.ok
       THEN /\ outputs' = outputs \o r.outs
            /\ progress' = IF opts.progress_cb THEN Append(progress, <<i, total>>)
                           ELSE progress
            /\ i' = i + 1
            /\ pc' = "top"
            /\ UNCHANGED error
       ELSE IF OnFailure(opts.continue_on_error) = "raise"
       THEN /\ pc' = "raised"
            /\ error' = r.err
            /\ UNCHANGED <<outputs, progress, i>>
       ELSE /\ outputs' = outputs \o FailureResults(op, files[i], r.err)
            /\ progress' = IF opts.progress_cb /\ DoneAfterFailure(op)
                           THEN Append(progress, <<i, total>>) ELSE progress
            /\ i' = i + 1
            /\ pc' = "top"
            /\ UNCHANGED error

\* The rest of the iteration: the try block, its except block, the Done callback.
ItemBody ==
    /\ pc = "item"
    /\ AfterTry(RunItem(op, opts, fs, files[i]))
    /\ UNCHANGED <<op, opts, files, fs0, cancel_flag>>
    /\ UNCHANGED <<pairVars, valVars, imgVars>>

Next ==
    \/ StartSplit
    \/ StartCombine
    \/ StartGenerate
    \/ StartValidate
    \/ SetCancel
    \/ LoopTop
    \/ ItemBody

Spec == BatchInit /\ [][Next]_vars

(***************************************************************************)
(* Properties of the batch drivers.                                        *)
(***************************************************************************)
Writers == {"split", "combine", "generate"}

\* The output paths the batch is to return for work item k when it succeeds.
ExpectedPaths(k) ==
    IF op = "split"
    THEN << [dirs |-> <<opts.out_dir.name>>,
             name |-> PathStem(files[k]) \o opts.rgb_suffix \o S_png],
            [dirs |-> <<opts.out_dir.name>>,
             name |-> PathStem(files[k]) \o opts.alpha_suffix \o S_png] >>
    ELSE IF op = "combine"
    THEN << [dirs |-> <<opts.out_dir.name>>,
             name |-> PathStem(files[k][1]) \o opts.out_suffix \o S_png] >>
    ELSE << [dirs |-> <<opts.out_dir.name>>,
             name |-> PathStem(files[k]) \o opts.out_suffix \o S_png] >>

\* The expected paths of the succeeded items among the first n visited ones.
RECURSIVE SucceededPaths(_)
SucceededPaths(n) ==
    IF n = 0 THEN <<>>
    ELSE SucceededPaths(n - 1) \o (IF visited[n].ok THEN ExpectedPaths(n) ELSE <<>>)

C2_ContinueOnError ==
    (op \in Writers /\ opts.continue_on_error /\ ~cancel_flag) =>
        /\ pc # "raised"
        /\ error = "none"
        /\ \A k \in 1..Len(visited) : visited[k].n = k
        /\ Len(visited) <= Len(files)
        /\ (pc = "returned" => Len(visited) = Len(files))
        /\ outputs = SucceededPaths(Len(visited))
        /\ \A k \in 1..Len(outputs) : outputs[k] \in DOMAIN fs

\* A returned batch whose first item failed and whose second item succeeded.
C2_Witness ==
    /\ op \in Writers
    /\ opts.continue_on_error
    /\ ~cancel_flag
    /\ pc = "returned"
    /\ Len(visited) = 2
    /\ ~visited[1].ok
    /\ visited[2].ok
    /\ outputs # <<>>

\* C3: with continue_on_error false, in every batch a failed item is the
\* last item visited and the batch has raised its error: nothing after the
\* failing item is visited, and the batch never returns a result after a
\* failure.
C3_AbortOnFirstFailure ==
    (op # "none" /\ ~opts.continue_on_error) =>
        /\ \A k \in 1..Len(visited) :
              ~visited[k].ok => /\ k = Len(visited)
                                /\ pc = "raised"
                                /\ error # "none"
                                /\ i = k
        /\ (pc = "raised") = (visited # <<>> /\ ~visited[Len(visited)].ok)
        /\ (pc = "returned" => \A k \in 1..Len(visited) : visited[k].ok)

\* A batch that raised at an item that is not the last of its work list.
C3_Witness ==
    /\ op # "none"
    /\ ~opts.continue_on_error
    /\ pc = "raised"
    /\ Len(visited) < Len(files)

\* C4: the overwrite gate.  save_png and save_mask_png called with
\* overwrite false for a path that exists fail with the refusal error and
\* leave the disk as it was; and during and after a batch with overwrite
\* false every file that existed when the batch started has its original
\* content.
C4_OverwriteGate ==
    /\ \A p \in DOMAIN fs : \A img \in {Img_x, Img_m} :
          /\ ~save_png(fs, img, p, FALSE).ok
          /\ save_png(fs, img, p, FALSE).disk = fs
          /\ save_png(fs, img, p, FALSE).err =
                "AlphaIOError: Refusing to overwrite existing file"
          /\ ~save_mask_png(fs, img, p, FALSE).ok
          /\ save_mask_png(fs, img, p, FALSE).disk = fs
    /\ (op \in Writers /\ ~opts.overwrite) =>
          \A p \in DOMAIN fs0 : p \in DOMAIN fs /\ fs[p] = fs0[p]

\* A split with overwrite false whose first item, a sound RGBA image, failed
\* because one of its outputs existed, after which the batch went on to
\* write other files.
C4_Witness ==
    /\ op = "split"
    /\ ~opts.overwrite
    /\ Len(visited) = 2
    /\ files[1] = P_a_x
    /\ ~visited[1].ok
    /\ visited[2].ok
    /\ DOMAIN fs # DOMAIN fs0

\* C5: split_alpha_files on the single RGB image b/x.png (no alpha band),
\* continue_on_error true, no cancellation, no output in place: with
\* on_missing_alpha "opaque" the item succeeds and the alpha mask written is
\* 255 everywhere at the image's size; with "error" the item is skipped,
\* nothing is written, and the batch returns the empty list.
C5_SplitNoAlpha ==
    (/\ op = "split"
     /\ files = <<P_b_x>>
     /\ opts.continue_on_error
     /\ ~cancel_flag
     /\ fs0 = InputDisk
     /\ pc = "returned") =>
        /\ error = "none"
        /\ IF opts.on_missing_alpha = "opaque"
           THEN /\ visited = << [n |-> 1, ok |-> TRUE] >>
                /\ outputs = ExpectedPaths(1)
                /\ FileAt(fs, outputs[2]) = Png(NewL(Img_bx.w, Img_bx.h, 255))
           ELSE /\ visited = << [n |-> 1, ok |-> FALSE] >>
                /\ outputs = <<>>
                /\ fs = fs0

\* The part of C5 about on_missing_alpha "opaque".
C5_OpaquePart ==
    (/\ op = "split"
     /\ files = <<P_b_x>>
     /\ opts.continue_on_error
     /\ opts.on_missing_alpha = "opaque"
     /\ ~cancel_flag
     /\ fs0 = InputDisk
     /\ pc = "returned") =>
        /\ visited = << [n |-> 1, ok |-> TRUE] >>
        /\ outputs = ExpectedPaths(1)
        /\ FileAt(fs, outputs[2]) = Png(NewL(Img_bx.w, Img_bx.h, 255))

\* C8: validate_alpha_files with continue_on_error and no cancellation
\* returns one result per input path, in input order: for a path whose
\* validation raised, a FAIL result without alpha and without stats whose
\* only message carries the error text; for every other path the result of
\* validate_alpha_file.
C8_OneResultPerPath ==
    (op = "validate" /\ opts.continue_on_error /\ ~cancel_flag) =>
        /\ pc # "raised"
        /\ Len(outputs) = Len(visited)
        /\ (pc = "returned" => Len(outputs) = Len(files))
        /\ \A k \in 1..Len(outputs) :
              /\ visited[k].n = k
              /\ outputs[k].path = PathStr(files[k])
              /\ IF load_image(fs0, files[k]).ok
                 THEN /\ visited[k].ok
                      /\ outputs[k] = validate_alpha_file(fs0, files[k], opts.rules).val
                 ELSE /\ ~visited[k].ok
                      /\ outputs[k].status = "FAIL"
                      /\ outputs[k].has_alpha = FALSE
                      /\ outputs[k].stats = NoFile
                      /\ Len(outputs[k].messages) = 1
                      /\ outputs[k].messages[1][2] = load_image(fs0, files[k]).err

\* A returned validation batch whose first path failed to load and whose
\* second path was validated.
C8_Witness ==
    /\ op = "validate"
    /\ opts.continue_on_error
    /\ ~cancel_flag
    /\ pc = "returned"
    /\ Len(outputs) = 2
    /\ outputs[1].status = "FAIL"
    /\ outputs[1].stats = NoFile
    /\ outputs[2].stats # NoFile

(***************************************************************************)
(* Properties of combine with a mask of another size.                      *)
(***************************************************************************)
\* One pair whose mask (2x1) is not of the RGB image's size (1x1), nothing
\* in the output directory, invert and overwrite at their defaults, the
\* item visited.
MismatchedPairVisited ==
    /\ op = "combine"
    /\ files = << <<P_b_x, P_a_m>> >>
    /\ fs0 = InputDisk
    /\ ~opts.invert
    /\ ~opts.overwrite
    /\ opts.resample = "nearest"
    /\ Len(visited) = 1

\* The written RGBA output has the RGB image's dimensions.
OutputAtRgbSize ==
    /\ visited[1].ok
    /\ outputs = ExpectedPaths(1)
    /\ FileAt(fs, outputs[1]).kind = "png"
    /\ FileAt(fs, outputs[1]).img.mode = "RGBA"
    /\ FileAt(fs, outputs[1]).img.w = Img_bx.w
    /\ FileAt(fs, outputs[1]).img.h = Img_bx.h
    /\ Len(FileAt(fs, outputs[1]).img.px) = Img_bx.w * Img_bx.h

\* C11 as stated: with every other option at its default (continue_on_error
\* true), resize_mode "error" makes the combine_alpha_files call raise the
\* size-mismatch error naming both sizes, and resize_mode "resize" with
\* resample "nearest" writes an output of the RGB image's dimensions.
C11_MismatchRaisesByDefault ==
    (MismatchedPairVisited /\ opts.continue_on_error) =>
        /\ opts.resize_mode = "error" =>
              /\ pc = "raised"
              /\ error = "AlphaIOError: Mask size (2, 1) does not match RGB size (1, 1)."
        /\ opts.resize_mode = "resize" => OutputAtRgbSize

\* C11, amended: combine_alpha with resize_mode "error" raises the
\* size-mismatch error naming both sizes; combine_alpha_files raises it to
\* its caller when continue_on_error is false, and with the default
\* continue_on_error true skips the pair, writes nothing and returns the
\* empty list; with resize_mode "resize" and resample "nearest" the written
\* RGBA output has the RGB image's dimensions.
C11_SizeMismatch ==
    /\ combine_alpha(Img_bx, Img_m, FALSE, "error", "nearest") =
          Raise("AlphaIOError: Mask size (2, 1) does not match RGB size (1, 1).")
    /\ MismatchedPairVisited =>
          /\ opts.resize_mode = "error" =>
                /\ ~visited[1].ok
                /\ outputs = <<>>
                /\ fs = fs0
                /\ IF opts.continue_on_error
                   THEN pc \in {"top", "returned"} /\ error = "none"
                   ELSE /\ pc = "raised"
                        /\ error =
                             "AlphaIOError: Mask size (2, 1) does not match RGB size (1, 1)."
          /\ opts.resize_mode = "resize" => OutputAtRgbSize

\* The batch has raised the size-mismatch error for the mismatched pair.
C11_Witness ==
    /\ MismatchedPairVisited
    /\ opts.resize_mode = "error"
    /\ ~opts.continue_on_error
    /\ pc = "raised"
    /\ error = SizeMismatch(Img_bx, Img_m)

(***************************************************************************)
(* A caller of the image functions: it builds an image row by row, of      *)
(* width 1 or 2 and up to MaxRows rows, and calls one function on it once. *)
(***************************************************************************)
MaxRows == 2

\* The pixels an image of the given mode is built from.
Palette(mode) ==
    IF mode = "RGBA"
    THEN { <<0, 0, 0, 0>>, <<255, 255, 255, 255>>, <<200, 100, 50, 128>>, <<10, 20, 30, 254>> }
    ELSE IF mode = "RGB"
    THEN { <<0, 0, 0>>, <<255, 255, 255>>, <<200, 100, 50>> }
    ELSE { <<0>>, <<255>>, <<124>> }

\* Luma(200, 100, 50) is 124: the thresholds lie around the samples' luminances.
Thresholds == {0 - 1, 0, 124, 125, 255, 256}

\* combine_alpha(*split_alpha(img, on_missing_alpha=...)), no invert.
RoundTripCombine(parts) ==
    IF ~parts.ok THEN parts
    ELSE combine_alpha(parts.val.rgb, parts.val.alpha, FALSE, "error", "nearest")

RoundTrip(img, on_missing_alpha) == RoundTripCombine(split_alpha(img, on_missing_alpha))

\* The disk of a generate_alpha_file call: the input file alone.
GenDisk(img) == [q \in {P_cat} |-> Png(img)]

GenOut == infer_output_path(P_cat, P_out, S_alpha_suffix, S_png)

ImgInit ==
    /\ im_pc = "input"
    /\ im_img \in {[mode |-> m, w |-> w, h |-> 0, px |-> <<>>] :
                      m \in {"RGBA", "RGB", "L"}, w \in {1, 2}}
    /\ im_call = NoFile
    /\ im_res = NoFile
    /\ PairIdle
    /\ ValIdle
    /\ BatchIdle

AddRow ==
    /\ im_pc = "input"
    /\ im_img.h < MaxRows
    /\ \E row \in [1..im_img.w -> Palette(im_img.mode)] :
         im_img' = [im_img EXCEPT !.h = @ + 1, !.px = @ \o row]
    /\ UNCHANGED <<im_pc, im_call, im_res>>
    /\ UNCHANGED <<pairVars, valVars, batchVars>>

\* The call is made and returns or raises.
Called(call, res) ==
    /\ im_call' = call
    /\ im_res' = res
    /\ im_pc' = "done"
    /\ UNCHANGED im_img
    /\ UNCHANGED <<pairVars, valVars, batchVars>>

CallRoundTrip ==
    /\ im_pc = "input"
    /\ im_img.h >= 1
    /\ \E oma \in {"opaque", "error"} :
         Called([fn |-> "roundtrip", on_missing_alpha |-> oma], RoundTrip(im_img, oma))

CallThreshold ==
    /\ im_pc = "input"
    /\ im_img.h >= 1
    /\ \E t \in Thresholds :
         Called([fn |-> "generate_alpha_threshold", threshold |-> t],
                generate_alpha_threshold(im_img, t))

CallGenerateFile ==
    /\ im_pc = "input"
    /\ im_img.h >= 1
    /\ \E g \in GenerateChoices, inv \in BOOLEAN :
         Called([fn |-> "generate_alpha_file", opts |-> [g EXCEPT !.invert = inv]],
                generate_alpha_file(GenDisk(im_img), P_cat, GenOut,
                                    [g EXCEPT !.invert = inv], FALSE))

ImgNext == AddRow \/ CallRoundTrip \/ CallThreshold \/ CallGenerateFile

SpecImage == ImgInit /\ [][ImgNext]_vars

(***************************************************************************)
(* Properties of the image functions.                                      *)
(***************************************************************************)
\* C12: for every RGBA image, combine_alpha(*split_alpha(img)) with no
\* invert and no resize is an RGBA image of the same size whose R, G, B and
\* alpha samples are those of the image, for either on_missing_alpha.
C12_RoundTrip ==
    (im_pc = "done" /\ im_call.fn = "roundtrip" /\ im_img.mode = "RGBA") =>
        /\ im_res.ok
        /\ im_res.val.mode = "RGBA"
        /\ im_res.val.w = im_img.w
        /\ im_res.val.h = im_img.h
        /\ Len(im_res.val.px) = Len(im_img.px)
        /\ \A k \in 1..Len(im_img.px) : \A b \in 1..4 :
              im_res.val.px[k][b] = im_img.px[k][b]

\* A round trip with on_missing_alpha "error" of a 2x2 RGBA image that has
\* transparent, opaque and half-transparent pixels.
C12_Witness ==
    /\ im_pc = "done"
    /\ im_call.fn = "roundtrip"
    /\ im_call.on_missing_alpha = "error"
    /\ im_img.mode = "RGBA"
    /\ im_img.w = 2
    /\ im_img.h = 2
    /\ {im_img.px[k][4] : k \in 1..4} = {0, 128, 255}
    /\ im_res.ok


\* The luminance of pixel k of the image called upon.
LuminanceAt(k) ==
    IF im_img.mode = "L" THEN im_img.px[k][1]
    ELSE (im_img.px[k][1] * 19595 + im_img.px[k][2] * 38470
            + im_img.px[k][3] * 7471 + 32768) \div 65536

\* C13: generate_alpha_threshold(img, t) fails with the parameter error for
\* every t outside 0..255, returning no mask; for t in 0..255 it returns an
\* L mask of the image's size whose sample is 255 where the pixel's
\* luminance is at least t and 0 elsewhere: all 255 for t = 0, 255 exactly at
\* the pixels of luminance 255 for t = 255, and only the values 0 and 255.
C13_Threshold ==
    (im_pc = "done" /\ im_call.fn = "generate_alpha_threshold") =>
        IF im_call.threshold < 0 \/ im_call.threshold > 255
        THEN /\ ~im_res.ok
             /\ im_res.err = "AlphaIOError: threshold must be between 0 and 255"
             /\ DOMAIN im_res = {"ok", "err"}
        ELSE /\ im_res.ok
             /\ im_res.val.mode = "L"
             /\ im_res.val.w = im_img.w
             /\ im_res.val.h = im_img.h
             /\ Len(im_res.val.px) = Len(im_img.px)
             /\ \A k \in 1..Len(im_img.px) :
                   /\ im_res.val.px[k][1] \in {0, 255}
                   /\ (im_res.val.px[k][1] = 255) = (LuminanceAt(k) >= im_call.threshold)
                   /\ im_call.threshold = 0 => im_res.val.px[k][1] = 255
                   /\ im_call.threshold = 255 =>
                         ((im_res.val.px[k][1] = 255) = (LuminanceAt(k) = 255))

\* A threshold equal to the luminance of one pixel of an RGB image that
\* also has a darker pixel: the first becomes 255, the second 0.
C13_Witness ==
    /\ im_pc = "done"
    /\ im_call.fn = "generate_alpha_threshold"
    /\ im_call.threshold = 124
    /\ im_img.mode = "RGB"
    /\ \E k \in 1..Len(im_img.px) : LuminanceAt(k) = 124 /\ im_res.val.px[k][1] = 255
    /\ \E k \in 1..Len(im_img.px) : LuminanceAt(k) < 124 /\ im_res.val.px[k][1] = 0


(***************************************************************************)
(* Properties of compute_alpha_stats, on the statistics that               *)
(* validate_alpha_file returns.                                            *)
(***************************************************************************)
\* a + b + c = 100 for three fractions.
SumIs100(a, b, c) ==
    a.num * b.den * c.den + b.num * a.den * c.den + c.num * a.den * b.den
        = 100 * a.den * b.den * c.den

\* The number of alpha samples of the validated image strictly between 0 and 255.
NumMid == Cardinality({k \in 1..Len(AlphaSamples) : AlphaSamples[k] > 0 /\ AlphaSamples[k] < 255})

\* C14: for every non-empty alpha plane the statistics have
\* pct_zero + pct_255 + pct_mid = 100, the three being the shares of the
\* samples equal to 0, equal to 255 and strictly between, which partition
\* the samples; and min <= mean <= max with min and max in 0..255.
C14_StatsInvariant ==
    (v_pc = "done" /\ v_res.ok /\ v_res.val.stats # NoFile) =>
        /\ SumIs100(v_res.val.stats.pct_zero, v_res.val.stats.pct_255,
                    v_res.val.stats.pct_mid)
        /\ v_res.val.stats.min \in 0..255
        /\ v_res.val.stats.max \in 0..255
        /\ v_res.val.stats.min * v_res.val.stats.mean.den <= v_res.val.stats.mean.num
        /\ v_res.val.stats.mean.num <= v_res.val.stats.max * v_res.val.stats.mean.den
        /\ v_res.val.stats.mean.den > 0
        /\ v_img.mode = "RGBA" =>
              /\ NumEqual(0) + NumEqual(255) + NumMid = Len(AlphaSamples)
              /\ v_res.val.stats.pct_zero.num * Len(AlphaSamples)
                    = 100 * NumEqual(0) * v_res.val.stats.pct_zero.den
              /\ v_res.val.stats.pct_255.num * Len(AlphaSamples)
                    = 100 * NumEqual(255) * v_res.val.stats.pct_255.den
              /\ v_res.val.stats.pct_mid.num * Len(AlphaSamples)
                    = 100 * NumMid * v_res.val.stats.pct_mid.den

\* The statistics of an alpha plane with one sample 0, one 255 and one between.
C14_Witness ==
    /\ v_pc = "done"
    /\ v_img.mode = "RGBA"
    /\ Len(AlphaSamples) = 3
    /\ NumEqual(0) = 1
    /\ NumEqual(255) = 1
    /\ NumMid = 1
    /\ v_res.val.stats.min = 0
    /\ v_res.val.stats.max = 255


(***************************************************************************)
(* Properties of the progress callback and of path expansion in batches.   *)
(***************************************************************************)
\* C15: in every batch with a progress callback, once an item has been
\* visited and the batch has not raised, the last callback made reports
\* completed_count = the number of items visited and total_count = the
\* length of the work list, whether the item succeeded or was skipped; the
\* reported counts never decrease and never exceed the total.
C15_ProgressAfterEachItem ==
    (op # "none" /\ opts.progress_cb) =>
        /\ (pc \in {"top", "returned"} /\ visited # <<>>) =>
              /\ progress # <<>>
              /\ progress[Len(progress)] = <<Len(visited), Len(files)>>
        /\ \A k \in 1..Len(progress) :
              /\ progress[k][1] <= progress[k][2]
              /\ progress[k][2] = Len(files)
              /\ k > 1 => progress[k - 1][1] <= progress[k][1]


\* The batches whose first statement is files = expand_inputs(in_paths).
Expanding == {"split", "generate"}

\* files has no two entries with the same canonical path and holds only
\* existing files with a supported extension.
ExpandedUniqueImages ==
    /\ \A j \in 1..Len(files) : \A k \in 1..Len(files) :
          j # k => Resolve(files[j]) # Resolve(files[k])
    /\ \A k \in 1..Len(files) :
          /\ Resolve(files[k]) \in DOMAIN fs0
          /\ LowerStr(PathSuffix(files[k])) \in SUPPORTED_IMAGE_EXTS

\* files holds exactly the image files given or lying below a directory given.
ExpandedFromInputs ==
    {files[k] : k \in 1..Len(files)} =
        { q \in {opts.in_paths[k] : k \in 1..Len(opts.in_paths)}
                  \cup UNION {Below(fs0, opts.in_paths[k]) : k \in 1..Len(opts.in_paths)} :
            is_image_file(DOMAIN fs0, q) }

\* C16: the list expand_inputs returns is in sorted path order, has no two
\* entries with the same canonical path, and holds only existing files with a
\* supported extension: those given and those below the directories given.
C16_ExpandSortedUnique ==
    op \in Expanding =>
        /\ \A k \in 1..(Len(files) - 1) : PartsLess(Parts(files[k]), Parts(files[k + 1]))
        /\ ExpandedUniqueImages
        /\ ExpandedFromInputs

\* The part of C16 that is not about the order of the list.
C16_UniqueImagesPart == op \in Expanding => ExpandedUniqueImages /\ ExpandedFromInputs


\* The paths given to the batch call.
GivenPaths ==
    IF op = "validate" THEN {opts.paths[k] : k \in 1..Len(opts.paths)}
    ELSE IF op = "combine"
    THEN {opts.pairs[k][1] : k \in 1..Len(opts.pairs)}
            \cup {opts.pairs[k][2] : k \in 1..Len(opts.pairs)}
    ELSE {opts.in_paths[k] : k \in 1..Len(opts.in_paths)}

\* The paths of the work list.
WorkPaths ==
    IF op = "combine"
    THEN {files[k][1] : k \in 1..Len(files)} \cup {files[k][2] : k \in 1..Len(files)}
    ELSE {files[k] : k \in 1..Len(files)}

\* C17: each of the four batches works on the expansion of its inputs: the
\* work list holds only existing image files (so a path that does not exist
\* or is not an image causes no per-item operation, no error, no callback
\* and no result), every existing image file given is in it, and a directory
\* given is replaced by the image files below it.
C17_AllBatchesExpand ==
    op # "none" =>
        /\ \A q \in WorkPaths : is_image_file(DOMAIN fs0, q)
        /\ \A q \in GivenPaths :
              /\ is_image_file(DOMAIN fs0, q) => q \in WorkPaths
              /\ is_dir(fs0, q) =>
                    \A c \in Below(fs0, q) : is_image_file(DOMAIN fs0, c) => c \in WorkPaths

\* C17 for the two batches that call expand_inputs.
C17_ExpandingPart == op \in Expanding => C17_AllBatchesExpand


\* C18: an unknown value of a string-valued option makes the operation
\* fail: in a generate batch of unknown kind, a combine batch of unknown
\* resize_mode or resample filter, and a split batch of unknown
\* on_missing_alpha policy, every item visited fails.
C18_UnknownOptionsRejected ==
    /\ (op = "generate" /\ opts.opts.kind \notin {"luminance", "threshold", "colorkey"}) =>
          \A k \in 1..Len(visited) : ~visited[k].ok
    /\ (op = "combine" /\ (opts.resize_mode \notin {"error", "resize"}
                              \/ opts.resample \notin {"nearest", "bilinear"})) =>
          \A k \in 1..Len(visited) : ~visited[k].ok
    /\ (op = "split" /\ opts.on_missing_alpha \notin {"opaque", "error"}) =>
          \A k \in 1..Len(visited) : ~visited[k].ok

\* The part of C18 about the generate kind.
C18_UnknownKindPart ==
    (op = "generate" /\ opts.opts.kind \notin {"luminance", "threshold", "colorkey"}) =>
        \A k \in 1..Len(visited) : ~visited[k].ok /\ fs = fs0


\* The samples of the mask a generate_alpha_file call wrote, given what the
\* call returned.
WrittenSamples(res) == [k \in 1..Len(FileAt(res.disk, GenOut).img.px) |->
                           FileAt(res.disk, GenOut).img.px[k][1]]

\* The same call with opts.invert = false.
PlainCall ==
    generate_alpha_file(GenDisk(im_img), P_cat, GenOut,
                        [im_call.opts EXCEPT !.invert = FALSE], FALSE)

\* C19: generate_alpha_file inverts after generating, for every kind: with
\* opts.invert true the call succeeds exactly when the call with invert
\* false does, and each sample written is 255 minus the sample that call
\* writes, so that inverting the written mask gives the plain mask back; a
\* call of unknown kind fails and writes nothing.
C19_InvertAfterGenerate ==
    (im_pc = "done" /\ im_call.fn = "generate_alpha_file") =>
        /\ im_call.opts.kind \notin {"luminance", "threshold", "colorkey"} =>
              /\ ~im_res.ok
              /\ im_res.err = "AlphaIOError: Unknown generation kind"
              /\ im_res.disk = GenDisk(im_img)
        /\ im_call.opts.invert =>
              /\ im_res.ok = PlainCall.ok
              /\ im_res.ok =>
                    /\ FileAt(im_res.disk, GenOut).kind = "png"
                    /\ FileAt(im_res.disk, GenOut).img.mode = "L"
                    /\ Len(WrittenSamples(im_res)) = Len(im_img.px)
                    /\ \A k \in 1..Len(im_img.px) :
                          /\ WrittenSamples(im_res)[k] = 255 - WrittenSamples(PlainCall)[k]
                          /\ 255 - WrittenSamples(im_res)[k] = WrittenSamples(PlainCall)[k]

\* An inverted colorkey mask that holds both 0 and 255.
C19_Witness ==
    /\ im_pc = "done"
    /\ im_call.fn = "generate_alpha_file"
    /\ im_call.opts.kind = "colorkey"
    /\ im_call.opts.invert
    /\ im_res.ok
    /\ {WrittenSamples(im_res)[k] : k \in 1..Len(im_img.px)} = {0, 255}


(***************************************************************************)
(* Properties of the order of build_pairs' results.                        *)
(***************************************************************************)
\* A list of strings in ascending order.
Ascending(strs) ==
    \A j \in 1..Len(strs) : \A k \in 1..Len(strs) : j < k => ~StrLess(strs[k], strs[j])

\* C20: pairs is sorted ascending by the string form of its RGB path, and
\* unpaired_rgb and unpaired_alpha are sorted ascending by path string,
\* whatever the order of the input lists.
C20_SortedResults ==
    bp_pc = "done" =>
        /\ Ascending([k \in 1..Len(pairs) |-> PathStr(pairs[k][1])])
        /\ Ascending([k \in 1..Len(unpaired_rgb) |-> PathStr(unpaired_rgb[k])])
        /\ Ascending([k \in 1..Len(unpaired_alpha) |-> PathStr(unpaired_alpha[k])])

\* Two pairs returned in the order opposite to that of the RGB input list.
C20_Witness ==
    /\ bp_pc = "done"
    /\ Len(pairs) = 2
    /\ Len(rgb_paths) = 2
    /\ rgb_paths[1] = pairs[2][1]
    /\ rgb_paths[2] = pairs[1][1]
    /\ StrLess(PathStr(pairs[1][1]), PathStr(pairs[2][1]))


(***************************************************************************)
(* Properties of what a batch leaves on the disk.                          *)
(***************************************************************************)
\* The files created or modified since the batch started.
ChangedFiles == {q \in DOMAIN fs : q \notin DOMAIN fs0 \/ fs[q] # fs0[q]}

\* The files named by the result list built so far.
ReturnedFiles == {Resolve(outputs[k]) : k \in 1..Len(outputs)}

\* The visited items of a split batch whose alpha output was refused while
\* their RGB output was free.
RefusedAtAlpha ==
    {k \in 1..Len(visited) :
        /\ ~visited[k].ok
        /\ ~opts.overwrite
        /\ load_image(fs0, files[k]).ok
        /\ Resolve(ExpectedPaths(k)[1]) \notin DOMAIN fs0
        /\ Resolve(ExpectedPaths(k)[2]) \in DOMAIN fs0}

\* C21: a split item that fails because an output path exists and overwrite
\* is false creates or modifies neither of its outputs, so every file that
\* split_alpha_files has written is in the list it returns.
C21_SplitItemAtomic ==
    (op = "split" /\ pc # "raised") => ChangedFiles \subseteq ReturnedFiles

\* What does hold: a file written and not returned is the RGB output of an
\* item whose alpha output was refused, and a refusal of the RGB output
\* writes nothing.
C21_RgbBeforeAlphaPart ==
    (op = "split" /\ pc # "raised") =>
        \A q \in ChangedFiles \ ReturnedFiles :
            \E k \in RefusedAtAlpha : q = Resolve(ExpectedPaths(k)[1])


\* No file is named twice by the result list built so far.
NoPathTwice ==
    \A j \in 1..Len(outputs) : \A k \in 1..Len(outputs) :
        j < k => Resolve(outputs[j]) # Resolve(outputs[k])

\* C22: whatever the inputs and options, overwrite=true included, the list
\* returned by split_alpha_files, combine_alpha_files or generate_alpha_files
\* names no path twice: no output written for one item is overwritten by a
\* later item of the same batch.
C22_NoClobbering ==
    op \in Writers => NoPathTwice

\* What does hold: with overwrite=false the gate of save_png refuses the
\* second write, and only inputs of equal stem collide.
C22_GatedPart ==
    op \in Writers =>
        /\ ~opts.overwrite => NoPathTwice
        /\ \A j \in 1..Len(visited) : \A k \in 1..Len(visited) :
              (j < k /\ visited[j].ok /\ visited[k].ok
                     /\ ExpectedPaths(j)[1] = ExpectedPaths(k)[1])
                  => /\ opts.overwrite
                     /\ PathStem(IF op = "combine" THEN files[j][1] ELSE files[j])
                          = PathStem(IF op = "combine" THEN files[k][1] ELSE files[k])


\* The batch has returned after visiting every item of a non-empty work
\* list: it was not cancelled and it did not raise.
RanToTheEnd ==
    /\ op # "none"
    /\ pc = "returned"
    /\ files # <<>>
    /\ Len(visited) = Len(files)

\* C23: a batch with a progress callback and a non-empty work list that runs
\* to the end without cancellation and without raising makes a last
\* callback that reports completed_count = total_count, however many items
\* failed and were skipped.
C23_LastProgressIsTotal ==
    (RanToTheEnd /\ opts.progress_cb) =>
        /\ progress # <<>>
        /\ progress[Len(progress)] = <<Len(files), Len(files)>>

\* What does hold: the validate batch always ends on (total, total); the
\* other three do when their last item succeeded, and end on
\* (total - 1, total) when it was skipped.
C23_LastItemPart ==
    (RanToTheEnd /\ opts.progress_cb) =>
        /\ progress # <<>>
        /\ progress[Len(progress)] =
              IF op = "validate" \/ visited[Len(visited)].ok
              THEN <<Len(files), Len(files)>>
              ELSE <<Len(files) - 1, Len(files)>>


(***************************************************************************)
(* Properties of the pairing keys.                                         *)
(***************************************************************************)
\* Two paths that differ only in letter case, in the part of the path the
\* mode looks at: every segment in folder mode, the stem otherwise.
DifferOnlyInCase(p, q, mode) ==
    IF mode = "folder"
    THEN /\ Len(Parts(p)) = Len(Parts(q))
         /\ \A k \in 1..Len(Parts(p)) : LowerStr(Parts(p)[k]) = LowerStr(Parts(q)[k])
    ELSE LowerStr(PathStem(p)) = LowerStr(PathStem(q))

\* Every two paths of one input list that differ only in case have one key.
CaseBlind(paths, is_alpha) ==
    \A j \in 1..Len(paths) : \A k \in 1..Len(paths) :
        DifferOnlyInCase(paths[j], paths[k], rule.mode)
            => _key_for_path(paths[j], rule, is_alpha) = _key_for_path(paths[k], rule, is_alpha)

\* C24: with case_sensitive=false the key of a path does not depend on its
\* letter case: two paths of one side that differ only in case derive the
\* same key, so under the default rule rgb cat.png pairs with alpha
\* CAT_ALPHA.png.
C24_KeyIgnoresCase ==
    ~rule.case_sensitive =>
        /\ CaseBlind(rgb_paths, FALSE)
        /\ CaseBlind(alpha_paths, TRUE)
        /\ (bp_pc = "done" /\ rule = default_rule
              /\ rgb_paths = <<P_cat>> /\ alpha_paths = <<P_CAT_ALPHA>>)
               => pairs = << <<P_cat, P_CAT_ALPHA>> >>

\* What does hold: the key is case-folded after the suffix has been looked
\* for in the stem as written, so paths that differ only in case have one
\* key unless the suffix is stripped from one and not from the other.
C24_FoldAfterStripPart ==
    ~rule.case_sensitive =>
        /\ CaseBlind(rgb_paths, FALSE)
        /\ \A j \in 1..Len(alpha_paths) : \A k \in 1..Len(alpha_paths) :
              (/\ DifferOnlyInCase(alpha_paths[j], alpha_paths[k], rule.mode)
               /\ (rule.mode = "suffix" =>
                      (EndsWith(PathStem(alpha_paths[j]), rule.alpha_suffix)
                         <=> EndsWith(PathStem(alpha_paths[k]), rule.alpha_suffix))))
                  => _key_for_path(alpha_paths[j], rule, TRUE)
                       = _key_for_path(alpha_paths[k], rule, TRUE)


\* C25: every image file of rgb_paths is the RGB member of a pair or is in
\* unpaired_rgb, and every image file of alpha_paths is the alpha member of
\* a pair or is in unpaired_alpha, also when several paths of one side
\* derive the same key.
C25_NoInputLost ==
    bp_pc = "done" =>
        /\ \A j \in ImageIdx(rgb_paths) :
              rgb_paths[j] \in PairRgbs \cup SeqSet(unpaired_rgb)
        /\ \A j \in ImageIdx(alpha_paths) :
              alpha_paths[j] \in PairAlphas \cup SeqSet(unpaired_alpha)

\* What does hold: the image files found in the results are, on each side,
\* the first one of every key; a later path of a key is in no result list.
C25_FirstOfEachKeyPart ==
    bp_pc = "done" =>
        /\ PairRgbs \cup SeqSet(unpaired_rgb)
              = {FirstWithKey(rgb_paths, FALSE, key) : key \in RgbKeys}
        /\ PairAlphas \cup SeqSet(unpaired_alpha)
              = {FirstWithKey(alpha_paths, TRUE, key) : key \in AlphaKeys}
====
